---- MODULE Spec2Model ----
(***************************************************************************)
(* A model of the Windows capture engine of coreaudio-node:                *)
(*   src/native/windows/wasapi_capture.cpp   (class WasapiCapture)         *)
(*   src/native/windows/windows_bridge.cpp   (the extern "C" entry points) *)
(*                                                                         *)
(* One capture handle (a WasapiCapture object), the control threads that   *)
(* call audio_start_* / audio_stop on it, and the capture thread the       *)
(* object spawns.  Every step of a thread that reads or writes a member    *)
(* of the object is one action, so the threads interleave at the           *)
(* granularity of those accesses.                                          *)
(*                                                                         *)
(* Numbers.  Sample rates are integers (Hz), instants integers (ms).       *)
(* Samples, the gain, the resample ratio and the chunk duration (a double, *)
(* in ms) are exact rationals <<n, d>>                                     *)
(* (d > 0, lowest terms): the rounding of float/double arithmetic is not   *)
(* modelled, truncating casts are.                                         *)
(***************************************************************************)
EXTENDS Integers, Sequences, FiniteSets, TLC

\* ------------------------------------------------------------------ bounds
MaxCalls   == 3   \* API calls made on the handle, over all control threads
MaxBatches == 2   \* packets the endpoint delivers over the handle's life
MaxFrames  == 2   \* frames in one packet
MaxTicks   == 2   \* 10 ms poll timeouts that elapse in one capture thread
MaxData    == 4   \* data callback invocations recorded for one session

\* ------------------------------------------------------- program constants
PollMs            == 10    \* WaitForSingleObject(stopEvent_, 10)
DefaultChunkMs    == 200   \* chunkDurationMs > 0 ? chunkDurationMs : 200
MsPerSecond       == 1000  \* chunkDurationMs_ / 1000.0
BitsPerChannel    == 32    \* metadata: always 32-bit float
FallbackChannels  == 2     \* mixFormat_ ? mixFormat_->nChannels : 2
BytesPerSample    == 4     \* sizeof(float)
\* (mutant) the start event carries the event type of the stop event
EvStarted_AsStopped == 0 + 1

EvStarted         == 0    \* eventCallback_(0, nullptr, userContext_)
EvStopped         == 1
EvError           == 2

\* --------------------------------------------------------------- rationals
RECURSIVE GCD(_, _)
GCD(a, b) == IF b = 0 THEN a ELSE GCD(b, a % b)

Abs(x) == IF x < 0 THEN -x ELSE x

\* the rational n/d in lowest terms, d > 0
Q(n, d) ==
    LET s == IF d < 0 THEN -1 ELSE 1
        g == GCD(Abs(n), Abs(d))
    IN  <<(s * n) \div g, (s * d) \div g>>

QInt(n)     == <<n, 1>>
QAdd(x, y)  == Q(x[1] * y[2] + y[1] * x[2], x[2] * y[2])
QSub(x, y)  == Q(x[1] * y[2] - y[1] * x[2], x[2] * y[2])
QMul(x, y)  == Q(x[1] * y[1], x[2] * y[2])
QDiv(x, y)  == Q(x[1] * y[2], x[2] * y[1])
QLe(x, y)   == x[1] * y[2] <= y[1] * x[2]
\* a cast of a non-negative value to size_t truncates
QTrunc(x)   == x[1] \div x[2]

RECURSIVE SeqSum(_)
SeqSum(s) == IF s = <<>> THEN QInt(0) ELSE QAdd(s[1], SeqSum(Tail(s)))

RECURSIVE Concat(_)
Concat(ss) == IF ss = <<>> THEN <<>> ELSE ss[1] \o Concat(Tail(ss))

\* ------------------------------------------------- the processing pipeline
\* FinalizeInitialization: the output rate is the target rate when one was given
OutputSampleRate(target, native) == IF target > 0 THEN target ELSE native

\* FinalizeInitialization: resampleRatio_ = outputSampleRate / nSamplesPerSec
ResampleRatio(target, native) == Q(OutputSampleRate(target, native), native)

\* (mutant) the product is rounded to the nearest integer
SamplesPerChunk_Rounded(ms, outRate) ==
    LET x == QMul(QDiv(ms, QInt(MsPerSecond)), QInt(outRate))
    IN  (2 * x[1] + x[2]) \div (2 * x[2])

\* FinalizeInitialization: static_cast<size_t>((chunkDurationMs_ / 1000.0) * outputSampleRate)
SamplesPerChunk(ms, outRate) ==
    QTrunc(QMul(QDiv(ms, QInt(MsPerSecond)), QInt(outRate)))

\* (mutant) the gain is never applied
ApplyGain_Skipped(data, g) == data

\* ProcessAudioData: processedData[i] = floatData[i] * gain_, only when gain_ != 1.0
ApplyGain(data, g) ==
    IF g # QInt(1) THEN [i \in 1..Len(data) |-> QMul(data[i], g)] ELSE data

\* (mutant) the channels of a frame are summed and not divided
ConvertToMono_Sum(input, frames, channels) ==
    [i \in 1..frames |->
        SeqSum([c \in 1..channels |-> input[(i - 1) * channels + c]])]

\* ConvertToMono: output[i] = (sum over c of input[i * channels + c]) / channels
ConvertToMono(input, frames, channels) ==
    [i \in 1..frames |->
        QDiv(SeqSum([c \in 1..channels |-> input[(i - 1) * channels + c]]),
             QInt(channels))]

\* (mutant) the interpolation weights are not complementary
ResampleAudio_Overshoot(input, ratio) ==
    LET inputSamples  == Len(input)
        outputSamples == QTrunc(QMul(QInt(inputSamples), ratio))
    IN  [j \in 1..outputSamples |->
            LET srcIndex    == QDiv(QInt(j - 1), ratio)
                srcIndexInt == QTrunc(srcIndex)
                frac        == QSub(srcIndex, QInt(srcIndexInt))
            IN  IF srcIndexInt + 1 < inputSamples
                THEN QAdd(input[srcIndexInt + 1],
                          QMul(input[srcIndexInt + 2], frac))
                ELSE IF srcIndexInt < inputSamples
                THEN input[srcIndexInt + 1]
                ELSE QInt(0)]

\* (mutant) the output length is rounded up past inputSamples * ratio
ResampleAudio_OneMore(input, ratio) ==
    LET inputSamples  == Len(input)
        outputSamples == QTrunc(QMul(QInt(inputSamples), ratio)) + 1
    IN  [j \in 1..outputSamples |->
            LET srcIndex    == QDiv(QInt(j - 1), ratio)
                srcIndexInt == QTrunc(srcIndex)
                frac        == QSub(srcIndex, QInt(srcIndexInt))
            IN  IF srcIndexInt + 1 < inputSamples
                THEN QAdd(QMul(input[srcIndexInt + 1], QSub(QInt(1), frac)),
                          QMul(input[srcIndexInt + 2], frac))
                ELSE IF srcIndexInt < inputSamples
                THEN input[srcIndexInt + 1]
                ELSE QInt(0)]

\* ResampleAudio: linear interpolation over the whole (interleaved) buffer;
\* indices here are 1-based, the code's are 0-based
ResampleAudio(input, ratio) ==
    LET inputSamples  == Len(input)
        outputSamples == QTrunc(QMul(QInt(inputSamples), ratio))
    IN  [j \in 1..outputSamples |->
            LET srcIndex    == QDiv(QInt(j - 1), ratio)
                srcIndexInt == QTrunc(srcIndex)
                frac        == QSub(srcIndex, QInt(srcIndexInt))
            IN  IF srcIndexInt + 1 < inputSamples
                THEN QAdd(QMul(input[srcIndexInt + 1], QSub(QInt(1), frac)),
                          QMul(input[srcIndexInt + 2], frac))
                ELSE IF srcIndexInt < inputSamples
                THEN input[srcIndexInt + 1]
                ELSE QInt(0)]

\* ProcessAudioData: numChannels after the optional downmix
ChannelsAfterMono(channels, mono) == IF mono /\ channels > 1 THEN 1 ELSE channels

\* ProcessAudioData, "Apply gain" and "Convert to mono if needed": floatData
\* as it stands before "Resample if needed"
ResamplerInput(data, numFrames, channels, g, mono) ==
    LET gained == ApplyGain(data, g)
    IN  IF mono /\ channels > 1
        THEN ConvertToMono(gained, numFrames, channels)
        ELSE gained

\* ProcessAudioData, up to the push onto chunkBuffer_: the samples appended
\* for one packet of numFrames frames in a format of `channels` channels
ProcessedSamples(data, numFrames, channels, g, mono, ratio) ==
    LET monoData    == ResamplerInput(data, numFrames, channels, g, mono)
        numChannels == ChannelsAfterMono(channels, mono)
        resampled   == IF ratio # QInt(1)
                       THEN ResampleAudio(monoData, ratio)
                       ELSE monoData
        outputFrames  == IF ratio # QInt(1)
                         THEN Len(resampled) \div numChannels
                         ELSE numFrames
        outputSamples == outputFrames * numChannels
    IN  SubSeq(resampled, 1, outputSamples)

\* ProcessAudioData: samplesNeeded = samplesPerChunk_ * (isMono_ ? 1 : numChannels)
SamplesNeeded(spc, mono, numChannels) == spc * (IF mono THEN 1 ELSE numChannels)

\* (mutant) a silent chunk sized for one channel whatever the format
SilentSamples_OneChannel(spc, mono, fmt) == spc * 1

\* CaptureThread: silentSamples = samplesPerChunk_ * numChannels, where
\* numChannels = isMono_ ? 1 : (mixFormat_ ? mixFormat_->nChannels : 2)
SilentSamples(spc, mono, fmt) ==
    spc * (IF mono THEN 1 ELSE IF fmt.id # 0 THEN fmt.nChannels ELSE FallbackChannels)

\* -------------------------------------------------------------------- state
VARIABLES
    \* members of WasapiCapture (wasapi_capture.h, lines 149-180)
    dataCallback,       \* TRUE: a callback was given; FALSE: nullptr
    eventCallback,
    metadataCallback,
    audioClient,        \* 0: nullptr; n: the IAudioClient acquired by call n
    captureClient,      \* 0: nullptr; n: the IAudioCaptureClient of call n
    mixFormat,          \* NullFormat, or the WAVEFORMATEX obtained by call id
    captureThread,      \* the std::thread member: TRUE when joinable
    running,            \* std::atomic<bool> running_
    stopEvent,          \* the manual-reset event: TRUE when signalled
    targetSampleRate,
    chunkDurationMs,
    isMono,
    gain,
    emitSilence,
    lastDataTime,
    chunkBuffer,
    samplesPerChunk,
    resampleRatio,
    \* the capture thread: its position and the locals of CaptureThread
    worker,
    \* the control threads: position in the call, the call, its arguments,
    \* its return value
    pc, op, args, ret,
    \* the platform
    now,                \* std::chrono::steady_clock, in ms since the capture
                        \* thread read it first (only differences are used)
    clientStarted,      \* the IAudioClient objects between Start() and Stop()
    live,               \* native objects acquired and not released
    aborted,            \* std::terminate was called
    \* what the host and the endpoint have seen (history, not program state)
    ncalls,             \* API calls made so far
    obs,                \* per control thread: facts of its current/last call
    events,             \* event callback invocations, in order
    metadata,           \* metadata callback invocations, in order
    delivered,          \* data callback invocations of the current session
    processed,          \* samples ProcessAudioData appended in this session
    session,            \* per session facts: the buffer it began with, ...
    nsamples,           \* input samples the endpoint has handed out
    batches,            \* packets the endpoint has handed out
    released            \* ReleaseBuffer calls made on the capture client

memberVars  == <<dataCallback, eventCallback, metadataCallback, audioClient,
                 captureClient, mixFormat, captureThread, running, stopEvent>>
configVars  == <<targetSampleRate, chunkDurationMs, isMono, gain, emitSilence>>
pipeVars    == <<lastDataTime, chunkBuffer, samplesPerChunk, resampleRatio>>
ctlVars     == <<pc, op, args, ret>>
platVars    == <<now, clientStarted, live, aborted>>
histVars    == <<ncalls, obs, events, metadata, delivered, processed, session,
                 nsamples, batches, released>>
vars == <<memberVars, configVars, pipeVars, worker, ctlVars, platVars, histVars>>

NullFormat == [id |-> 0, nChannels |-> 0, nSamplesPerSec |-> 0]

NoArgs == [sampleRate |-> 0, chunkDurationMs |-> QInt(0), isMono |-> FALSE,
           emitSilence |-> FALSE, gain |-> QInt(1), include |-> <<>>,
           exclude |-> <<>>, deviceId |-> ""]

NoObs == [id |-> 0, handle |-> TRUE, wasRunning |-> FALSE, init |-> "na",
          fin |-> "na", start |-> "na", events |-> <<>>, spawned |-> FALSE,
          source |-> <<"none", 0>>, cont |-> "api", requests |-> 0,
          timedOut |-> FALSE]

\* the capture thread before it exists / after it has exited; flags is
\* whether the last GetBuffer set AUDCLNT_BUFFERFLAGS_SILENT; comRefs and
\* mmTasks are the thread's state in the platform: its COM initialisations
\* not yet undone and its task registrations not yet reverted
NoWorker == [pc |-> "none", packetLength |-> 0, receivedAudio |-> FALSE,
             comInitializedByUs |-> FALSE, taskHandle |-> FALSE,
             samplesNeeded |-> 0, chunkDuration |-> 0, errors |-> 0,
             failures |-> 0, passes |-> 0, flags |-> FALSE, comRefs |-> 0,
             mmTasks |-> 0]

\* (history) the last packet handed to ProcessAudioData: its samples, its
\* frame count, the argument and the result of ResampleAudio when it ran,
\* and the samples pushed onto chunkBuffer_ for the packet
NoPacket == [data |-> <<>>, numFrames |-> 0, resampleIn |-> <<>>,
             resampled |-> <<>>, out |-> <<>>]

NoSession == [id |-> 0, kind |-> "none", source |-> <<"none", 0>>,
              buffer0 |-> <<>>, started |-> FALSE, stopReturned |-> FALSE,
              packet |-> NoPacket]

\* an event callback invocation; msg is "nullptr" or the message
Event(type, msg) == [type |-> type, msg |-> msg]

\* (mutant) the event is never delivered
Emitted_Dropped(log, type, msg) == log

\* eventCallback_(type, msg, userContext_) guarded by if (eventCallback_)
Emitted(log, type, msg) ==
    IF eventCallback THEN Append(log, Event(type, msg)) ELSE log

\* WasapiCapture::IsRunning
IsRunning == running

\* the handle has not been passed to audio_destroy and deleted
Alive == \A u \in DOMAIN pc : pc[u] # "destroyed"

StartOps == {"StartSystemAudio", "StartMicrophone"}

\* --------------------------------------------------------- input profiles
\* The sets the environment draws its inputs from.
\* Lifecycle: one control thread, every platform failure during Start, system
\* and process loopback and the microphone, one stream configuration.
LifeProfile ==
    [threads     |-> {1},
     kinds       |-> StartOps,
     handles     |-> {TRUE, FALSE},
     dataCbs     |-> {TRUE},
     eventCbs    |-> {TRUE},
     metaCbs     |-> {TRUE},
     rates       |-> {0},
     durations   |-> {QInt(10)},
     monos       |-> {TRUE},
     silences    |-> {FALSE},
     gains       |-> {QInt(1)},
     includes    |-> {<<>>, <<7>>},
     excludes    |-> {<<>>},
     devices     |-> {""},
     channels    |-> {1},
     nativeRates |-> {100},
     silentFlags |-> {FALSE},
     waves       |-> {"ramp"},
     frames      |-> {1},
     batchLimit  |-> 1,
     comResults  |-> {TRUE},
     taskResults |-> {TRUE},
     lateCompletions |-> {FALSE},
     faults      |-> {"init", "start"}]

\* Data path: one control thread, no platform failure, the configurations
\* that decide chunk sizes, with and without a data callback.
DataProfile ==
    [LifeProfile EXCEPT
        !.kinds       = {"StartSystemAudio"},
        !.includes    = {<<>>},
        !.handles     = {TRUE},
        !.dataCbs     = {TRUE, FALSE},
        !.rates       = {0, 100},
        !.durations   = {QInt(10)},
        !.monos       = {TRUE, FALSE},
        !.silences    = {TRUE},
        !.channels    = {2},
        !.nativeRates = {200},
        !.frames      = 1..MaxFrames,
        !.batchLimit  = MaxBatches,
        !.faults      = {}]

\* Read failures: one control thread, the calls on the capture client may
\* fail, and so may CoInitializeEx and AvSetMmThreadCharacteristicsW.
ReadProfile ==
    [LifeProfile EXCEPT
        !.handles     = {TRUE},
        !.kinds       = {"StartMicrophone"},
        !.comResults  = {TRUE, FALSE},
        !.taskResults = {TRUE, FALSE},
        !.faults      = {"read"}]

\* Silence watchdog: one control thread, emitSilence on and off, a whole and a
\* fractional chunk duration, packets flagged silent or not.
SilenceProfile ==
    [LifeProfile EXCEPT
        !.kinds       = {"StartSystemAudio"},
        !.includes    = {<<>>},
        !.handles     = {TRUE},
        !.durations   = {QInt(10), Q(21, 2)},
        !.monos       = {TRUE, FALSE},
        !.silences    = {TRUE, FALSE},
        !.channels    = {2},
        !.nativeRates = {200},
        !.silentFlags = {FALSE, TRUE},
        !.batchLimit  = MaxBatches,
        !.faults      = {}]

\* Teardown: one control thread, failures of the Initialize* functions, and
\* audio_destroy.
DestroyProfile ==
    [LifeProfile EXCEPT
        !.handles     = {TRUE},
        !.kinds       = {"StartMicrophone"},
        !.faults      = {"init"}]

\* Lifecycle events: one control thread, Start, Stop and audio_destroy, with
\* failures of Start's steps and of the capture thread's reads.
EventProfile ==
    [LifeProfile EXCEPT
        !.handles     = {TRUE},
        !.kinds       = {"StartMicrophone"},
        !.faults      = {"init", "start", "read"}]

\* Gain: one control thread, microphone and system-audio sessions on the same
\* handle, with and without a microphone gain.
GainProfile ==
    [LifeProfile EXCEPT
        !.handles     = {TRUE},
        !.includes    = {<<>>},
        !.monos       = {FALSE},
        !.gains       = {QInt(1), QInt(2)},
        !.batchLimit  = MaxBatches,
        !.faults      = {}]

\* Processing pipeline: one control thread, microphone sessions with every
\* combination of gain, downmix and resampling, mono and stereo endpoints and
\* three input signals; the chunk is too long for any chunk to complete.
PipeProfile ==
    [LifeProfile EXCEPT
        !.handles     = {TRUE},
        !.kinds       = {"StartMicrophone"},
        !.rates       = {0, 200, 100},
        !.durations   = {QInt(200)},
        !.monos       = {TRUE, FALSE},
        !.gains       = {QInt(1), QInt(2)},
        !.channels    = {1, 2},
        !.nativeRates = {200},
        !.waves       = {"ramp", "same", "alt"},
        !.frames      = 1..MaxFrames,
        !.faults      = {}]

\* Resampling: one control thread, microphone sessions that keep the native
\* rate, halve it or raise it by half, on mono and stereo endpoints.
ResampleProfile ==
    [LifeProfile EXCEPT
        !.handles     = {TRUE},
        !.kinds       = {"StartMicrophone"},
        !.rates       = {0, 100, 300},
        !.durations   = {QInt(200)},
        !.monos       = {FALSE},
        !.channels    = {1, 2},
        !.nativeRates = {200},
        !.waves       = {"ramp", "alt"},
        !.frames      = 1..MaxFrames,
        !.faults      = {}]

\* Source selection: one control thread, StartSystemAudio with empty, one-id
\* and two-id include and exclude lists, every failure of the Initialize*
\* functions, and activations that complete in time, late or never.
SourceProfile ==
    [LifeProfile EXCEPT
        !.handles     = {TRUE},
        !.kinds       = {"StartSystemAudio"},
        !.includes    = {<<>>, <<7>>, <<7, 8>>},
        !.excludes    = {<<>>, <<9>>, <<9, 8>>},
        !.lateCompletions = {FALSE, TRUE},
        !.faults      = {"init"}]

\* State query: one control thread, valid and null handles, the calls on the
\* capture client may fail, and audio_is_running between the other calls.
QueryProfile ==
    [ReadProfile EXCEPT
        !.handles     = {TRUE, FALSE}]

\* Chunk sizes: one control thread, system-audio sessions whose chunk
\* duration times the rate is a whole number, has a fraction, or is below one
\* sample; one-channel packets of one frame.
ChunkProfile ==
    [LifeProfile EXCEPT
        !.handles     = {TRUE},
        !.kinds       = {"StartSystemAudio"},
        !.includes    = {<<>>},
        !.durations   = {QInt(10), QInt(5), QInt(1)},
        !.monos       = {FALSE},
        !.nativeRates = {200, 44100},
        !.batchLimit  = MaxBatches,
        !.faults      = {}]

\* Concurrency: two control threads on the same handle, no platform failure.
ConcProfile ==
    [LifeProfile EXCEPT
        !.threads     = {1, 2},
        !.handles     = {TRUE},
        !.kinds       = {"StartSystemAudio"},
        !.includes    = {<<>>},
        !.faults      = {}]

\* WasapiCapture::WasapiCapture, lines 88-111
InitP(P) ==
    /\ dataCallback \in P.dataCbs
    /\ eventCallback \in P.eventCbs
    /\ metadataCallback \in P.metaCbs
    /\ audioClient = 0
    /\ captureClient = 0
    /\ mixFormat = NullFormat
    /\ captureThread = FALSE
    /\ running = FALSE
    /\ stopEvent = FALSE
    /\ targetSampleRate = 0
    /\ chunkDurationMs = QInt(DefaultChunkMs)
    /\ isMono = TRUE
    /\ gain = QInt(1)
    /\ emitSilence = TRUE
    /\ lastDataTime = 0
    /\ chunkBuffer = <<>>
    /\ samplesPerChunk = 0
    /\ resampleRatio = QInt(1)
    /\ worker = NoWorker
    /\ pc = [t \in P.threads |-> "idle"]
    /\ op = [t \in P.threads |-> "none"]
    /\ args = [t \in P.threads |-> NoArgs]
    /\ ret = [t \in P.threads |-> 0]
    /\ now = 0
    /\ clientStarted = {}
    /\ live = {}
    /\ aborted = FALSE
    /\ ncalls = 0
    /\ obs = [t \in P.threads |-> NoObs]
    /\ events = <<>>
    /\ metadata = <<>>
    /\ delivered = <<>>
    /\ processed = <<>>
    /\ session = NoSession
    /\ nsamples = 0
    /\ batches = 0
    /\ released = 0

\* ------------------------------------------------------------ Start calls
SystemArgs(P) ==
    {[NoArgs EXCEPT !.sampleRate = r, !.chunkDurationMs = d, !.isMono = m,
                    !.emitSilence = e, !.include = i, !.exclude = x] :
        r \in P.rates, d \in P.durations, m \in P.monos, e \in P.silences,
        i \in P.includes, x \in P.excludes}

MicrophoneArgs(P) ==
    {[NoArgs EXCEPT !.sampleRate = r, !.chunkDurationMs = d, !.isMono = m,
                    !.emitSilence = e, !.deviceId = dev, !.gain = g] :
        r \in P.rates, d \in P.durations, m \in P.monos, e \in P.silences,
        dev \in P.devices, g \in P.gains}

\* the return codes of the Start calls
InvalidHandleCode  == -1    \* audio_start_*: if (!handle) return -1;
AlreadyRunningCode == -2    \* if (running_) return -2;

\* (mutant) the codes of the three stages are mixed up
StartFailureCode_Shifted(stage) ==
    CASE stage = "init"  -> -4
      [] stage = "fin"   -> -5
      [] stage = "start" -> -3

\* the code a Start call returns when `stage` fails
StartFailureCode(stage) ==
    CASE stage = "init"  -> -3
      [] stage = "fin"   -> -4
      [] stage = "start" -> -5

\* (mutant) the running check is missing
AlreadyRunning_Unchecked == FALSE

\* if (running_) return -2;
AlreadyRunning == running

\* The bridge's handle check and the first statement of the Start method:
\*   if (!handle) return -1;   ...   if (running_) return -2;
StartEntry(t, kind, handle, a) ==
    /\ ~aborted
    /\ Alive
    /\ pc[t] = "idle"
    /\ ncalls < MaxCalls
    /\ ncalls' = ncalls + 1
    /\ op' = [op EXCEPT ![t] = kind]
    /\ obs' = [obs EXCEPT ![t] = [NoObs EXCEPT !.id = ncalls + 1,
                                               !.handle = handle,
                                               !.wasRunning = running]]
    /\ IF ~handle
       THEN /\ ret' = [ret EXCEPT ![t] = InvalidHandleCode]
            /\ UNCHANGED <<pc, args>>
       ELSE IF AlreadyRunning
       THEN /\ ret' = [ret EXCEPT ![t] = AlreadyRunningCode]
            /\ UNCHANGED <<pc, args>>
       ELSE /\ pc' = [pc EXCEPT ![t] = "start_cfg"]
            /\ args' = [args EXCEPT ![t] = a]
            /\ UNCHANGED ret
    /\ UNCHANGED <<memberVars, configVars, pipeVars, worker, platVars,
                   events, metadata, delivered, processed, session, nsamples,
                   batches, released>>

\* audio_start_system_audio -> WasapiCapture::StartSystemAudio, and
\* audio_start_microphone -> WasapiCapture::StartMicrophone
audio_start(P, t) ==
    \E kind \in P.kinds, handle \in P.handles :
        \E a \in (IF kind = "StartSystemAudio" THEN SystemArgs(P)
                  ELSE MicrophoneArgs(P)) :
            StartEntry(t, kind, handle, a)

\* targetSampleRate_ = sampleRate; chunkDurationMs_ = ...; isMono_; emitSilence_;
\* and, in StartMicrophone only, gain_ = gain
StartConfigure(t) ==
    /\ ~aborted
    /\ pc[t] = "start_cfg"
    /\ targetSampleRate' = args[t].sampleRate
    /\ chunkDurationMs' = IF args[t].chunkDurationMs[1] > 0
                          THEN args[t].chunkDurationMs
                          ELSE QInt(DefaultChunkMs)
    /\ isMono' = args[t].isMono
    /\ emitSilence' = args[t].emitSilence
    /\ gain' = IF op[t] = "StartMicrophone" THEN args[t].gain ELSE gain
    /\ pc' = [pc EXCEPT ![t] = "start_init"]
    /\ UNCHANGED <<memberVars, pipeVars, worker, op, args, ret, platVars,
                   histVars>>

\* StartSystemAudio, "Determine capture mode"; StartMicrophone, the device id
\* (mutant) the exclude list is looked at before the include list
CaptureSource_ExcludeFirst(kind, a) ==
    IF kind = "StartSystemAudio"
    THEN IF Len(a.exclude) > 0 THEN <<"exclude", a.exclude[1]>>
         ELSE IF Len(a.include) > 0 THEN <<"include", a.include[1]>>
         ELSE <<"system", 0>>
    ELSE IF a.deviceId # "" THEN <<"device", a.deviceId>>
         ELSE <<"defaultInput", "">>

CaptureSource(kind, a) ==
    IF kind = "StartSystemAudio"
    THEN IF Len(a.include) > 0 THEN <<"include", a.include[1]>>
         ELSE IF Len(a.exclude) > 0 THEN <<"exclude", a.exclude[1]>>
         ELSE <<"system", 0>>
    ELSE IF a.deviceId # "" THEN <<"device", a.deviceId>>
         ELSE <<"defaultInput", "">>

\* The platform calls of Initialize{SystemLoopback,ProcessLoopback,Microphone},
\* in the order they are made; each may be the one that fails.
InitCalls(mode) ==
    IF mode \in {"include", "exclude"}
    THEN <<"ActivateAudioInterfaceAsync", "Wait", "GetActivateResult",
           "QueryInterface", "GetMixFormat", "Initialize", "GetService">>
    ELSE <<"CoCreateInstance", "GetEndpoint", "Activate", "GetMixFormat",
           "Initialize", "GetService">>

\* which of the three members a run of Initialize* that fails at `failed`
\* ("none": no failure) has assigned: a COM out parameter is set to the new
\* object on success and to NULL by the call that fails
InitAssigned(failed) ==
    CASE failed \in {"CoCreateInstance", "GetEndpoint",
                     "ActivateAudioInterfaceAsync", "Wait", "GetActivateResult"}
                                    -> [ac |-> "keep", mf |-> "keep", cc |-> "keep"]
      [] failed \in {"Activate", "QueryInterface"}
                                    -> [ac |-> "null", mf |-> "keep", cc |-> "keep"]
      [] failed = "GetMixFormat"    -> [ac |-> "new",  mf |-> "null", cc |-> "keep"]
      [] failed = "Initialize"      -> [ac |-> "new",  mf |-> "new",  cc |-> "keep"]
      [] failed = "GetService"      -> [ac |-> "new",  mf |-> "new",  cc |-> "null"]
      [] OTHER                      -> [ac |-> "new",  mf |-> "new",  cc |-> "new"]

Assign(how, old, new, null) ==
    CASE how = "keep" -> old [] how = "null" -> null [] OTHER -> new

InitMessage(kind) ==
    IF kind = "StartMicrophone"
    THEN "Failed to initialize microphone capture"
    ELSE "Failed to initialize audio capture"

\* InitializeProcessLoopback: completionHandler->Wait(5000) has expired
\* without a completion. The result of Wait is discarded and the function
\* goes by GetOperation(): null when the completion has still not arrived
\* (the call fails at "Wait"), set when it arrived in between (`late`)
WaitTimedOut(calls, failed, late) ==
    /\ \E i \in 1..Len(calls) : calls[i] = "Wait"
    /\ \/ failed = "Wait"
       \/ late /\ failed \notin {"ActivateAudioInterfaceAsync", "Wait"}

\* the calls of ActivateAudioInterfaceAsync one run of Initialize* makes
ActivationRequests(calls) ==
    Cardinality({i \in 1..Len(calls) :
                    calls[i] = "ActivateAudioInterfaceAsync"})

\* Initialize* and the FAILED(hr) branch after it (return -3)
StartInitialize(P, t) ==
    /\ ~aborted
    /\ pc[t] = "start_init"
    /\ LET src   == CaptureSource(op[t], args[t])
           calls == InitCalls(src[1])
           id    == obs[t].id
       IN  \E failed \in {"none"} \cup
                         (IF "init" \in P.faults
                          THEN {calls[i] : i \in 1..Len(calls)} ELSE {}),
              ch \in P.channels, rate \in P.nativeRates,
              late \in P.lateCompletions :
             LET how == InitAssigned(failed)
                 timedOut == WaitTimedOut(calls, failed, late)
                 requests == ActivationRequests(calls)
                 fmt == [id |-> id, nChannels |-> ch, nSamplesPerSec |-> rate]
             IN  /\ audioClient' = Assign(how.ac, audioClient, id, 0)
                 /\ mixFormat' = Assign(how.mf, mixFormat, fmt, NullFormat)
                 /\ captureClient' = Assign(how.cc, captureClient, id, 0)
                 /\ live' = live \cup
                        {<<k, id>> : k \in {k \in {"ac", "mf", "cc"} : how[k] = "new"}}
                 /\ IF failed # "none"
                    THEN /\ events' = Emitted(events, EvError, InitMessage(op[t]))
                         /\ obs' = [obs EXCEPT ![t].init = "fail",
                                ![t].requests = requests,
                                ![t].timedOut = timedOut,
                                ![t].events =
                                    Emitted(@, EvError, InitMessage(op[t]))]
                         /\ ret' = [ret EXCEPT ![t] = StartFailureCode("init")]
                         /\ pc' = [pc EXCEPT ![t] = "idle"]
                         /\ args' = [args EXCEPT ![t] = NoArgs]
                    ELSE /\ obs' = [obs EXCEPT ![t].init = "ok",
                                                   ![t].requests = requests,
                                                   ![t].timedOut = timedOut,
                                                   ![t].source = src]
                         /\ pc' = [pc EXCEPT ![t] = "start_fin"]
                         /\ UNCHANGED <<events, ret, args>>
    /\ UNCHANGED <<dataCallback, eventCallback, metadataCallback, captureThread,
                   running, stopEvent, configVars, pipeVars, worker, op, now,
                   clientStarted, aborted, ncalls, metadata, delivered,
                   processed, session, nsamples, batches, released>>

\* (mutant) the metadata reports the native channel count whatever isMono_ is
Metadata_NativeChannels(outputSampleRate, mono, fmt, call) ==
    [sampleRate |-> outputSampleRate, channelsPerFrame |-> fmt.nChannels,
     bitsPerChannel |-> BitsPerChannel, isFloat |-> TRUE,
     encoding |-> "pcm_f32le", call |-> call]

\* FinalizeInitialization, "Report metadata": the arguments of the metadata
\* callback, and (history) the API call that made it
Metadata(outputSampleRate, mono, fmt, call) ==
    [sampleRate |-> outputSampleRate,
     channelsPerFrame |-> IF mono THEN 1 ELSE fmt.nChannels,
     bitsPerChannel |-> BitsPerChannel, isFloat |-> TRUE,
     encoding |-> "pcm_f32le", call |-> call]

\* FinalizeInitialization and the FAILED(hr) branch after it (return -4)
StartFinalize(t) ==
    /\ ~aborted
    /\ pc[t] = "start_fin"
    /\ IF mixFormat = NullFormat
       THEN /\ events' = Emitted(events, EvError,
                                 "Failed to finalize audio initialization")
            /\ obs' = [obs EXCEPT ![t].fin = "fail",
                                  ![t].events = Emitted(@, EvError,
                                      "Failed to finalize audio initialization")]
            /\ ret' = [ret EXCEPT ![t] = StartFailureCode("fin")]
            /\ pc' = [pc EXCEPT ![t] = "idle"]
            /\ args' = [args EXCEPT ![t] = NoArgs]
            /\ UNCHANGED <<resampleRatio, samplesPerChunk, metadata>>
       ELSE LET outputSampleRate ==
                    OutputSampleRate(targetSampleRate, mixFormat.nSamplesPerSec)
            IN  /\ resampleRatio' =
                       ResampleRatio(targetSampleRate, mixFormat.nSamplesPerSec)
                /\ samplesPerChunk' =
                       SamplesPerChunk(chunkDurationMs, outputSampleRate)
                /\ metadata' =
                       IF metadataCallback
                       THEN Append(metadata,
                                Metadata(outputSampleRate, isMono, mixFormat,
                                         obs[t].id))
                       ELSE metadata
                /\ obs' = [obs EXCEPT ![t].fin = "ok"]
                /\ pc' = [pc EXCEPT ![t] = "start_client"]
                /\ UNCHANGED <<events, ret, args>>
    /\ UNCHANGED <<memberVars, configVars, lastDataTime, chunkBuffer, worker,
                   op, platVars, ncalls, delivered, processed, session,
                   nsamples, batches, released>>

\* hr = audioClient_->Start() and the FAILED(hr) branch after it (return -5)
StartClient(P, t) ==
    /\ ~aborted
    /\ pc[t] = "start_client"
    /\ IF audioClient = 0
       THEN \* a call through a null pointer
            /\ aborted' = TRUE
            /\ UNCHANGED <<clientStarted, events, obs, ret, pc, args>>
       ELSE \E failed \in {FALSE} \cup
                          (IF "start" \in P.faults THEN {TRUE} ELSE {}) :
              IF failed
              THEN /\ events' = Emitted(events, EvError,
                                        "Failed to start audio client")
                   /\ obs' = [obs EXCEPT ![t].start = "fail",
                                  ![t].events = Emitted(@, EvError,
                                      "Failed to start audio client")]
                   /\ ret' = [ret EXCEPT ![t] = StartFailureCode("start")]
                   /\ pc' = [pc EXCEPT ![t] = "idle"]
                   /\ args' = [args EXCEPT ![t] = NoArgs]
                   /\ UNCHANGED <<clientStarted, aborted>>
              ELSE /\ clientStarted' = clientStarted \cup {audioClient}
                   /\ obs' = [obs EXCEPT ![t].start = "ok"]
                   /\ pc' = [pc EXCEPT ![t] = "start_run"]
                   /\ UNCHANGED <<events, ret, args, aborted>>
    /\ UNCHANGED <<memberVars, configVars, pipeVars, worker, op, now, live,
                   ncalls, metadata, delivered, processed, session, nsamples,
                   batches, released>>

\* running_ = true; ResetEvent(stopEvent_);
StartRun(t) ==
    /\ ~aborted
    /\ pc[t] = "start_run"
    /\ running' = TRUE
    /\ stopEvent' = FALSE
    /\ session' = [id |-> obs[t].id, kind |-> op[t], source |-> obs[t].source,
                   buffer0 |-> chunkBuffer, started |-> FALSE,
                   stopReturned |-> FALSE, packet |-> NoPacket]
    /\ delivered' = <<>>
    /\ processed' = <<>>
    /\ pc' = [pc EXCEPT ![t] = "start_event"]
    /\ UNCHANGED <<dataCallback, eventCallback, metadataCallback, audioClient,
                   captureClient, mixFormat, captureThread, configVars,
                   pipeVars, worker, op, args, ret, platVars, ncalls, obs,
                   events, metadata, nsamples, batches, released>>

\* "Emit start event": eventCallback_(0, nullptr, userContext_)
StartEvent(t) ==
    /\ ~aborted
    /\ pc[t] = "start_event"
    /\ events' = Emitted(events, EvStarted, "nullptr")
    /\ obs' = [obs EXCEPT ![t].events = Emitted(@, EvStarted, "nullptr")]
    /\ pc' = [pc EXCEPT ![t] = "start_thread"]
    /\ UNCHANGED <<memberVars, configVars, pipeVars, worker, op, args, ret,
                   platVars, ncalls, metadata, delivered, processed, session,
                   nsamples, batches, released>>

\* captureThread_ = std::thread(&WasapiCapture::CaptureThread, this); return 0;
\* assigning to a joinable std::thread calls std::terminate
StartThread(t) ==
    /\ ~aborted
    /\ pc[t] = "start_thread"
    /\ IF captureThread
       THEN /\ aborted' = TRUE
            /\ UNCHANGED <<captureThread, worker, obs, ret, pc, args, session>>
       ELSE /\ captureThread' = TRUE
            /\ worker' = [NoWorker EXCEPT !.pc = "entry"]
            /\ obs' = [obs EXCEPT ![t].spawned = TRUE]
            /\ session' = [session EXCEPT !.started = TRUE]
            /\ ret' = [ret EXCEPT ![t] = 0]
            /\ pc' = [pc EXCEPT ![t] = "idle"]
            /\ args' = [args EXCEPT ![t] = NoArgs]
            /\ UNCHANGED aborted
    /\ UNCHANGED <<dataCallback, eventCallback, metadataCallback, audioClient,
                   captureClient, mixFormat, running, stopEvent, configVars,
                   pipeVars, op, now, clientStarted, live, ncalls, events,
                   metadata, delivered, processed, nsamples, batches, released>>

\* ------------------------------------------------------------------- Stop
\* (mutant) the early return is missing
StopNotRunning_Missing == FALSE

\* Stop: if (!running_) return 0;
StopNotRunning == ~running

\* audio_stop: if (!handle) return -1;  Stop: if (!running_) return 0;
audio_stop(P, t) ==
    /\ ~aborted
    /\ Alive
    /\ pc[t] = "idle"
    /\ ncalls < MaxCalls
    /\ ncalls' = ncalls + 1
    /\ op' = [op EXCEPT ![t] = "Stop"]
    /\ \E handle \in P.handles :
         /\ obs' = [obs EXCEPT ![t] = [NoObs EXCEPT !.id = ncalls + 1,
                                                    !.handle = handle,
                                                    !.wasRunning = running]]
         /\ IF ~handle
            THEN /\ ret' = [ret EXCEPT ![t] = InvalidHandleCode]
                 /\ UNCHANGED <<pc, session>>
            ELSE IF StopNotRunning
            THEN /\ ret' = [ret EXCEPT ![t] = 0]
                 /\ session' = [session EXCEPT !.stopReturned = TRUE]
                 /\ UNCHANGED pc
            ELSE /\ pc' = [pc EXCEPT ![t] = "stop_signal"]
                 /\ UNCHANGED <<ret, session>>
    /\ UNCHANGED <<memberVars, configVars, pipeVars, worker, args, platVars,
                   events, metadata, delivered, processed, nsamples, batches, released>>

\* running_ = false; SetEvent(stopEvent_);
StopSignal(t) ==
    /\ ~aborted
    /\ pc[t] = "stop_signal"
    /\ running' = FALSE
    /\ stopEvent' = TRUE
    /\ pc' = [pc EXCEPT ![t] = "stop_join"]
    /\ UNCHANGED <<dataCallback, eventCallback, metadataCallback, audioClient,
                   captureClient, mixFormat, captureThread, configVars,
                   pipeVars, worker, op, args, ret, platVars, histVars>>

\* if (captureThread_.joinable()) captureThread_.join();
\* join returns once the capture thread has exited
StopJoin(t) ==
    /\ ~aborted
    /\ pc[t] = "stop_join"
    /\ IF captureThread
       THEN /\ worker.pc = "done"
            /\ captureThread' = FALSE
            /\ worker' = NoWorker
       ELSE UNCHANGED <<captureThread, worker>>
    /\ pc' = [pc EXCEPT ![t] = "stop_client"]
    /\ UNCHANGED <<dataCallback, eventCallback, metadataCallback, audioClient,
                   captureClient, mixFormat, running, stopEvent, configVars,
                   pipeVars, op, args, ret, platVars, histVars>>

\* if (audioClient_) audioClient_->Stop();
StopClient(t) ==
    /\ ~aborted
    /\ pc[t] = "stop_client"
    /\ clientStarted' = IF audioClient # 0
                        THEN clientStarted \ {audioClient} ELSE clientStarted
    /\ pc' = [pc EXCEPT ![t] = "stop_event"]
    /\ UNCHANGED <<memberVars, configVars, pipeVars, worker, op, args, ret,
                   now, live, aborted, histVars>>

\* where a call of Stop returns to: the host (audio_stop), audio_destroy
\* (line 103) or the destructor (line 114)
StopReturnsTo(cont) ==
    CASE cont = "destroy" -> "destroy_delete"
      [] cont = "dtor"    -> "destroy_release"
      [] OTHER            -> "idle"

\* "Emit stop event": eventCallback_(1, nullptr, userContext_); return 0;
StopEvent(t) ==
    /\ ~aborted
    /\ pc[t] = "stop_event"
    /\ events' = Emitted(events, EvStopped, "nullptr")
    /\ obs' = [obs EXCEPT ![t].events = Emitted(@, EvStopped, "nullptr")]
    /\ ret' = [ret EXCEPT ![t] = IF obs[t].cont = "api" THEN 0 ELSE @]
    /\ pc' = [pc EXCEPT ![t] = StopReturnsTo(obs[t].cont)]
    /\ session' = [session EXCEPT !.stopReturned = TRUE]
    /\ UNCHANGED <<memberVars, configVars, pipeVars, worker, op, args,
                   platVars, ncalls, metadata, delivered, processed, nsamples,
                   batches, released>>

\* ---------------------------------------------------------------- Destroy
\* audio_destroy: if (!handle) return; capture->Stop(); (Stop: line 457)
audio_destroy(P, t) ==
    /\ ~aborted
    /\ Alive
    /\ pc[t] = "idle"
    /\ ncalls' = ncalls + 1
    /\ op' = [op EXCEPT ![t] = "Destroy"]
    /\ \E handle \in P.handles :
         /\ handle \/ ncalls < MaxCalls
         /\ obs' = [obs EXCEPT ![t] = [NoObs EXCEPT !.id = ncalls + 1,
                                                    !.handle = handle,
                                                    !.wasRunning = running,
                                                    !.cont = "destroy"]]
         /\ pc' = [pc EXCEPT ![t] = IF ~handle THEN "idle"
                                    ELSE IF StopNotRunning
                                    THEN StopReturnsTo("destroy")
                                    ELSE "stop_signal"]
    /\ UNCHANGED <<memberVars, configVars, pipeVars, worker, args, ret,
                   platVars, events, metadata, delivered, processed, session,
                   nsamples, batches, released>>

\* delete capture: ~WasapiCapture begins with Stop()
DestroyDelete(t) ==
    /\ ~aborted
    /\ pc[t] = "destroy_delete"
    /\ obs' = [obs EXCEPT ![t].cont = "dtor"]
    /\ pc' = [pc EXCEPT ![t] = IF StopNotRunning THEN StopReturnsTo("dtor")
                               ELSE "stop_signal"]
    /\ UNCHANGED <<memberVars, configVars, pipeVars, worker, op, args, ret,
                   platVars, ncalls, events, metadata, delivered, processed,
                   session, nsamples, batches, released>>

\* the native objects the destructor releases: those the three members
\* point to
Released ==
    {<<"mf", mixFormat.id>>, <<"cc", captureClient>>, <<"ac", audioClient>>}

\* ~WasapiCapture after Stop(): CloseHandle, CoTaskMemFree(mixFormat_),
\* captureClient_->Release(), audioClient_->Release(), then the members are
\* destroyed and the object is freed.  Destroying a joinable std::thread
\* calls std::terminate; freeing the object under a call in progress on
\* another thread leaves defined behaviour: both end the model's run.
DestroyRelease(t) ==
    /\ ~aborted
    /\ pc[t] = "destroy_release"
    /\ live' = live \ Released
    /\ IF captureThread \/ \E u \in DOMAIN pc \ {t} : pc[u] # "idle"
       THEN /\ aborted' = TRUE
            /\ UNCHANGED pc
       ELSE /\ pc' = [pc EXCEPT ![t] = "destroyed"]
            /\ UNCHANGED aborted
    /\ UNCHANGED <<memberVars, configVars, pipeVars, worker, op, args, ret,
                   now, clientStarted, histVars>>

\* -------------------------------------------------------------- IsRunning
\* a C++ bool returned through the C interface: true is 1, false is 0
BoolCode(b) == IF b THEN 1 ELSE 0

\* audio_is_running: if (!handle) return false; return capture->IsRunning();
audio_is_running(P, t) ==
    /\ ~aborted
    /\ Alive
    /\ pc[t] = "idle"
    /\ ncalls < MaxCalls
    /\ ncalls' = ncalls + 1
    /\ op' = [op EXCEPT ![t] = "IsRunning"]
    /\ \E handle \in P.handles :
         /\ obs' = [obs EXCEPT ![t] = [NoObs EXCEPT !.id = ncalls + 1,
                                                    !.handle = handle,
                                                    !.wasRunning = running]]
         /\ ret' = [ret EXCEPT ![t] = IF ~handle THEN BoolCode(FALSE)
                                      ELSE BoolCode(IsRunning)]
    /\ UNCHANGED <<memberVars, configVars, pipeVars, worker, pc, args,
                   platVars, events, metadata, delivered, processed, session,
                   nsamples, batches, released>>

\* ------------------------------------------------------ the capture thread
\* a data callback invocation: the chunk and the byte length passed, and
\* (history) whether the watchdog made it and the instant of the call
Chunk(samples, synthetic) ==
    [samples |-> samples, bytes |-> Len(samples) * BytesPerSample,
     synthetic |-> synthetic, at |-> now]

\* CaptureThread, up to the loop: CoInitializeEx, AvSetMmThreadCharacteristicsW,
\* lastDataTime_ = steady_clock::now(),
\* chunkDuration = milliseconds(static_cast<int64_t>(chunkDurationMs_))
CaptureEnter(P) ==
    /\ ~aborted
    /\ worker.pc = "entry"
    /\ \E com \in P.comResults, task \in P.taskResults :
         worker' = [worker EXCEPT !.pc = "loop", !.comInitializedByUs = com,
                                  !.comRefs = IF com THEN @ + 1 ELSE @,
                                  !.taskHandle = task,
                                  !.mmTasks = IF task THEN @ + 1 ELSE @,
                                  !.chunkDuration = QTrunc(chunkDurationMs)]
    /\ now' = 0
    /\ lastDataTime' = now'
    /\ UNCHANGED <<memberVars, configVars, chunkBuffer, samplesPerChunk,
                   resampleRatio, ctlVars, clientStarted, live, aborted,
                   histVars>>

\* while (running_)
CaptureLoop ==
    /\ ~aborted
    /\ worker.pc = "loop"
    /\ worker' = [worker EXCEPT !.pc = IF running THEN "wait" ELSE "exit"]
    /\ UNCHANGED <<memberVars, configVars, pipeVars, ctlVars, platVars,
                   histVars>>

\* WaitForSingleObject(stopEvent_, 10): WAIT_OBJECT_0 breaks out of the loop,
\* a timeout lets 10 ms pass
CaptureWait ==
    /\ ~aborted
    /\ worker.pc = "wait"
    /\ IF stopEvent
       THEN /\ worker' = [worker EXCEPT !.pc = "exit"]
            /\ UNCHANGED now
       ELSE /\ now + PollMs <= MaxTicks * PollMs
            /\ now' = now + PollMs
            /\ worker' = [worker EXCEPT !.pc = "poll"]
    /\ UNCHANGED <<memberVars, configVars, pipeVars, ctlVars, clientStarted,
                   live, aborted, histVars>>

\* whether a call on the capture client fails
ReadFailures(P) == {FALSE} \cup (IF "read" \in P.faults THEN {TRUE} ELSE {})

\* the packet sizes GetNextPacketSize may report: 0, or (abstractly) 1 for > 0
PacketLengths(P) == {0} \cup (IF batches < P.batchLimit THEN {1} ELSE {})

\* receivedAudio = false; GetNextPacketSize, and on failure the Error event
\* and the break out of the outer loop
CapturePoll(P) ==
    /\ ~aborted
    /\ worker.pc = "poll"
    /\ \E failed \in ReadFailures(P) :
         IF failed
         THEN /\ events' = Emitted(events, EvError, "Failed to get packet size")
              /\ worker' = [worker EXCEPT !.pc = "exit", !.receivedAudio = FALSE,
                                          !.errors = IF eventCallback
                                                     THEN @ + 1 ELSE @,
                                          !.failures = 1]
         ELSE /\ \E len \in PacketLengths(P) :
                    worker' = [worker EXCEPT !.pc = "inner",
                                             !.receivedAudio = FALSE,
                                             !.packetLength = len]
              /\ UNCHANGED events
    /\ UNCHANGED <<memberVars, configVars, pipeVars, ctlVars, platVars, ncalls,
                   obs, metadata, delivered, processed, session, nsamples,
                   batches, released>>

\* while (packetLength > 0 && running_)
CaptureInner ==
    /\ ~aborted
    /\ worker.pc = "inner"
    /\ worker' = [worker EXCEPT !.pc = IF worker.packetLength > 0 /\ running
                                       THEN "getbuf" ELSE "watch"]
    /\ UNCHANGED <<memberVars, configVars, pipeVars, ctlVars, platVars,
                   histVars>>

\* the float samples of a packet the endpoint hands out: consecutive values,
\* a constant signal, or a signal alternating between 1 and -1
WaveSample(wave, k, i) ==
    CASE wave = "same" -> QInt(1)
      [] wave = "alt"  -> QInt(IF i % 2 = 1 THEN 1 ELSE -1)
      [] OTHER         -> QInt(k + i)

\* (mutant) packets flagged silent are processed like any other
HasAudio_Always(silent) == silent = silent

\* if (!(flags & AUDCLNT_BUFFERFLAGS_SILENT) && data != nullptr), of a buffer
\* GetBuffer handed out (its data pointer is then not null)
HasAudio(silent) == ~silent

\* GetBuffer (a failure breaks out of the inner loop) and, for a packet not
\* flagged silent, ProcessAudioData up to the push onto chunkBuffer_
CaptureGetBuffer(P) ==
    /\ ~aborted
    /\ worker.pc = "getbuf"
    /\ \E failed \in ReadFailures(P), numFrames \in P.frames,
          silent \in P.silentFlags, wave \in P.waves :
         IF failed
         THEN /\ worker' = [worker EXCEPT !.pc = "watch", !.failures = 1]
              /\ UNCHANGED <<chunkBuffer, processed, nsamples, batches,
                             session>>
         ELSE
            LET channels == IF mixFormat = NullFormat THEN 1
                            ELSE mixFormat.nChannels
                data == [i \in 1..(numFrames * channels) |->
                            WaveSample(wave, nsamples, i)]
                rin  == ResamplerInput(data, numFrames, channels, gain,
                                       isMono)
                out  == ProcessedSamples(data, numFrames, channels, gain,
                                         isMono, resampleRatio)
            IN  /\ batches' = batches + 1
                /\ nsamples' = nsamples + numFrames * channels
                /\ IF ~HasAudio(silent)
                   THEN /\ worker' = [worker EXCEPT !.pc = "release",
                                                    !.flags = silent]
                        /\ UNCHANGED <<chunkBuffer, processed, session>>
                   ELSE IF mixFormat = NullFormat
                   THEN \* ProcessAudioData returns at once
                        /\ worker' = [worker EXCEPT !.pc = "release",
                                                    !.receivedAudio = TRUE,
                                                    !.flags = silent]
                        /\ UNCHANGED <<chunkBuffer, processed, session>>
                   ELSE /\ chunkBuffer' = chunkBuffer \o out
                        /\ processed' = processed \o out
                        /\ session' = [session EXCEPT !.packet =
                               [data |-> data, numFrames |-> numFrames,
                                resampleIn |->
                                    IF resampleRatio # QInt(1) THEN rin
                                    ELSE <<>>,
                                resampled |->
                                    IF resampleRatio # QInt(1)
                                    THEN ResampleAudio(rin, resampleRatio)
                                    ELSE <<>>,
                                out |-> out]]
                        /\ worker' = [worker EXCEPT !.pc = "emit",
                               !.flags = silent,
                               !.samplesNeeded =
                                   SamplesNeeded(samplesPerChunk, isMono,
                                       ChannelsAfterMono(channels, isMono))]
    /\ UNCHANGED <<memberVars, configVars, lastDataTime, samplesPerChunk,
                   resampleRatio, ctlVars, platVars, ncalls, obs, events,
                   metadata, delivered, released>>

\* ProcessAudioData, "Emit chunks when buffer is full": one test of the
\* while condition and, when it holds, one run of the loop body. The history
\* keeps the first MaxData invocations; a loop that erases nothing
\* (samplesNeeded = 0) goes on past them, and worker.passes then alternates
\* with every further pass
CaptureEmit ==
    /\ ~aborted
    /\ worker.pc = "emit"
    /\ IF Len(chunkBuffer) >= worker.samplesNeeded /\ dataCallback
       THEN /\ Len(delivered) < MaxData \/ worker.samplesNeeded = 0
            /\ delivered' =
                   IF Len(delivered) < MaxData
                   THEN Append(delivered,
                            Chunk(SubSeq(chunkBuffer, 1, worker.samplesNeeded),
                                  FALSE))
                   ELSE delivered
            /\ chunkBuffer' = SubSeq(chunkBuffer, worker.samplesNeeded + 1,
                                     Len(chunkBuffer))
            /\ worker' = IF Len(delivered) < MaxData THEN worker
                         ELSE [worker EXCEPT !.passes = 1 - @]
       ELSE /\ worker' = [worker EXCEPT !.pc = "release", !.receivedAudio = TRUE]
            /\ UNCHANGED <<delivered, chunkBuffer>>
    /\ UNCHANGED <<memberVars, configVars, lastDataTime, samplesPerChunk,
                   resampleRatio, ctlVars, platVars, ncalls, obs, events,
                   metadata, processed, session, nsamples, batches, released>>

\* ReleaseBuffer, then GetNextPacketSize; a failure of either breaks out of
\* the inner loop
CaptureRelease(P) ==
    /\ ~aborted
    /\ worker.pc = "release"
    /\ \E failed \in ReadFailures(P), len \in PacketLengths(P) :
         worker' = IF failed
                   THEN [worker EXCEPT !.pc = "watch", !.failures = 1]
                   ELSE [worker EXCEPT !.pc = "inner", !.packetLength = len]
    /\ released' = released + 1
    /\ UNCHANGED <<memberVars, configVars, pipeVars, ctlVars, platVars, ncalls,
                   obs, events, metadata, delivered, processed, session,
                   nsamples, batches>>

\* (mutant) the watchdog ignores the emitSilence flag
SilenceDue_Unconditional(emit, received, elapsed, chunkDuration) ==
    ~received /\ elapsed >= chunkDuration

\* if (emitSilence_ && !receivedAudio) { ... if (elapsed >= chunkDuration)
SilenceDue(emit, received, elapsed, chunkDuration) ==
    emit /\ ~received /\ elapsed >= chunkDuration

\* "Update last data time if we received audio" and "Generate silence if
\* enabled and no audio received for too long"
CaptureWatchdog ==
    /\ ~aborted
    /\ worker.pc = "watch"
    /\ LET elapsed       == now - lastDataTime
           chunkDuration == worker.chunkDuration
           silentSamples == SilentSamples(samplesPerChunk, isMono, mixFormat)
       IN  IF worker.receivedAudio
           THEN /\ lastDataTime' = now
                /\ UNCHANGED delivered
           ELSE IF SilenceDue(emitSilence, worker.receivedAudio, elapsed,
                              chunkDuration)
           THEN /\ lastDataTime' = now
                /\ IF silentSamples > 0 /\ dataCallback
                   THEN /\ Len(delivered) < MaxData
                        /\ delivered' = Append(delivered,
                               Chunk([i \in 1..silentSamples |-> QInt(0)], TRUE))
                   ELSE UNCHANGED delivered
           ELSE UNCHANGED <<lastDataTime, delivered>>
    /\ worker' = [worker EXCEPT !.pc = "loop"]
    /\ UNCHANGED <<memberVars, configVars, chunkBuffer, samplesPerChunk,
                   resampleRatio, ctlVars, platVars, ncalls, obs, events,
                   metadata, processed, session, nsamples, batches, released>>

\* (mutant) the thread function returns without CoUninitialize
CaptureExit_NoUninitialize ==
    /\ ~aborted
    /\ worker.pc = "exit"
    /\ worker' = [worker EXCEPT !.pc = "done",
                                !.mmTasks = IF worker.taskHandle
                                            THEN @ - 1 ELSE @]
    /\ UNCHANGED <<memberVars, configVars, pipeVars, ctlVars, platVars,
                   histVars>>

\* after the loop: if (taskHandle) AvRevertMmThreadCharacteristics,
\* if (comInitializedByUs) CoUninitialize; the thread function returns
CaptureExit ==
    /\ ~aborted
    /\ worker.pc = "exit"
    /\ worker' = [worker EXCEPT !.pc = "done",
                                !.mmTasks = IF worker.taskHandle
                                            THEN @ - 1 ELSE @,
                                !.comRefs = IF worker.comInitializedByUs
                                            THEN @ - 1 ELSE @]
    /\ UNCHANGED <<memberVars, configVars, pipeVars, ctlVars, platVars,
                   histVars>>

\* ------------------------------------------------------------ specification
NextP(P) ==
    \/ \E t \in P.threads :
         \/ audio_start(P, t)
         \/ StartConfigure(t)
         \/ StartInitialize(P, t)
         \/ StartFinalize(t)
         \/ StartClient(P, t)
         \/ StartRun(t)
         \/ StartEvent(t)
         \/ StartThread(t)
         \/ audio_stop(P, t)
         \/ StopSignal(t)
         \/ StopJoin(t)
         \/ StopClient(t)
         \/ StopEvent(t)
    \/ CaptureEnter(P)
    \/ CaptureLoop
    \/ CaptureWait
    \/ CapturePoll(P)
    \/ CaptureInner
    \/ CaptureGetBuffer(P)
    \/ CaptureEmit
    \/ CaptureRelease(P)
    \/ CaptureWatchdog
    \/ CaptureExit

Init == InitP(LifeProfile)
Next == NextP(LifeProfile)
Spec == Init /\ [][Next]_vars

InitData == InitP(DataProfile)
NextData == NextP(DataProfile)
SpecData == InitData /\ [][NextData]_vars

InitSilence == InitP(SilenceProfile)
NextSilence == NextP(SilenceProfile)
SpecSilence == InitSilence /\ [][NextSilence]_vars

\* the steps of audio_destroy
DestroyP(P) ==
    \E t \in P.threads :
        \/ audio_destroy(P, t)
        \/ DestroyDelete(t)
        \/ DestroyRelease(t)

InitDestroy == InitP(DestroyProfile)
NextDestroy == NextP(DestroyProfile) \/ DestroyP(DestroyProfile)
SpecDestroy == InitDestroy /\ [][NextDestroy]_vars

InitEvents == InitP(EventProfile)
NextEvents == NextP(EventProfile) \/ DestroyP(EventProfile)
SpecEvents == InitEvents /\ [][NextEvents]_vars

InitGain == InitP(GainProfile)
NextGain == NextP(GainProfile)
SpecGain == InitGain /\ [][NextGain]_vars

InitPipe == InitP(PipeProfile)
NextPipe == NextP(PipeProfile)
SpecPipe == InitPipe /\ [][NextPipe]_vars

InitResample == InitP(ResampleProfile)
NextResample == NextP(ResampleProfile)
SpecResample == InitResample /\ [][NextResample]_vars

InitSource == InitP(SourceProfile)
NextSource == NextP(SourceProfile)
SpecSource == InitSource /\ [][NextSource]_vars

InitChunk == InitP(ChunkProfile)
NextChunk == NextP(ChunkProfile)
SpecChunk == InitChunk /\ [][NextChunk]_vars

\* the next step of the capture thread
CaptureNext(P) ==
    \/ CaptureEnter(P)
    \/ CaptureLoop
    \/ CaptureWait
    \/ CapturePoll(P)
    \/ CaptureInner
    \/ CaptureGetBuffer(P)
    \/ CaptureEmit
    \/ CaptureRelease(P)
    \/ CaptureWatchdog
    \/ CaptureExit

\* the next step of a call of Stop that thread t is in
StopNext(t) == StopSignal(t) \/ StopJoin(t) \/ StopClient(t) \/ StopEvent(t)

\* the operating system schedules every runnable thread: the capture thread
\* and a control thread inside Stop keep taking steps while they can
SpecChunkFair ==
    /\ SpecChunk
    /\ WF_vars(CaptureNext(ChunkProfile))
    /\ \A t \in ChunkProfile.threads : WF_vars(StopNext(t))

InitRead == InitP(ReadProfile)
NextRead == NextP(ReadProfile)
SpecRead == InitRead /\ [][NextRead]_vars

\* the one step of audio_is_running
QueryP(P) == \E t \in P.threads : audio_is_running(P, t)

InitQuery == InitP(QueryProfile)
NextQuery == NextP(QueryProfile) \/ QueryP(QueryProfile)
SpecQuery == InitQuery /\ [][NextQuery]_vars

InitConc == InitP(ConcProfile)
NextConc == NextP(ConcProfile)
SpecConc == InitConc /\ [][NextConc]_vars

\* ------------------------------------------------------ claims: vocabulary
Threads == DOMAIN pc

NumEvents(log, type) == Cardinality({i \in 1..Len(log) : log[i].type = type})

\* thread t enters a call in this step
CallBy(t, ops) ==
    /\ pc[t] = "idle"
    /\ obs'[t].id = ncalls + 1
    /\ op'[t] \in ops

\* thread t has returned from a call of `ops` made on a valid handle
Returned(t, ops) ==
    /\ pc[t] = "idle"
    /\ op[t] \in ops
    /\ obs[t].handle

\* everything of the session a rejected call must leave alone
sessionVars == <<memberVars, configVars, pipeVars, worker, platVars, events,
                 metadata, delivered, processed, session>>

\* ---------------------------------------------------------------------- C1
\* C1: a Start call (microphone or system audio) made while the session is
\* Running returns -2 in that step and changes nothing of the session: not
\* the stored configuration, the native endpoint, the chunk buffer or the
\* capture thread, and it invokes no event or metadata callback.
C1_StartWhileRunningIsRejected ==
    [][\A t \in Threads :
          (CallBy(t, StartOps) /\ obs'[t].handle /\ IsRunning)
              => /\ ret'[t] = -2
                 /\ pc'[t] = "idle"
                 /\ UNCHANGED sessionVars]_vars

\* a Start was rejected with -2 while a capture thread was capturing
C1_Witness ==
    \E t \in Threads :
        /\ Returned(t, StartOps)
        /\ obs[t].wasRunning
        /\ ret[t] = -2
        /\ IsRunning
        /\ worker.pc \notin {"none", "done"}

\* ---------------------------------------------------------------------- C2
\* C2: Stop on a session that is not Running returns 0 in that step, emits no
\* event and changes nothing; and whenever a Stop has returned, it returned
\* 0 and every Started event is matched by exactly one Stopped event (so a
\* second Stop after a successful Start adds none).
C2_StopIsIdempotent ==
    [][\A t \in Threads :
          /\ (CallBy(t, {"Stop"}) /\ obs'[t].handle /\ ~IsRunning)
                => /\ ret'[t] = 0
                   /\ pc'[t] = "idle"
                   /\ UNCHANGED <<memberVars, configVars, pipeVars, worker,
                                  platVars, events, metadata, delivered,
                                  processed>>
          /\ (pc'[t] = "idle" /\ op'[t] = "Stop" /\ obs'[t].handle)
                => /\ ret'[t] = 0
                   /\ NumEvents(events', EvStopped) =
                          NumEvents(events', EvStarted)]_vars

\* a Stop that found the session already stopped, after a session that was
\* started and stopped once
C2_Witness ==
    \E t \in Threads :
        /\ Returned(t, {"Stop"})
        /\ ~obs[t].wasRunning
        /\ ret[t] = 0
        /\ NumEvents(events, EvStarted) = 1
        /\ NumEvents(events, EvStopped) = 1

\* ---------------------------------------------------------------------- C4
\* C4: when a Start call has failed at negotiation, finalize or client start,
\* then on return the session is Idle, no capture thread exists, the call
\* emitted no Started event and an Error event, and every native object the
\* call acquired (audio client, mix format, capture client) is released.
C4_FailedStartRollsBack ==
    \A t \in Threads :
        (Returned(t, StartOps) /\ ret[t] \in {-3, -4, -5})
            => /\ ~IsRunning
               /\ worker.pc \in {"none", "done"}
               /\ ~captureThread
               /\ NumEvents(obs[t].events, EvStarted) = 0
               /\ eventCallback => NumEvents(obs[t].events, EvError) >= 1
               /\ \A k \in {"ac", "mf", "cc"} : <<k, obs[t].id>> \notin live

\* ---------------------------------------------------------------------- C5
\* C5: a Start call returns the code of the first check that fails, in the
\* order null handle (-1), already running (-2), negotiation (-3), finalize
\* (-4), client start (-5), and 0 exactly when none fails; audio_stop
\* returns -1 on a null handle and 0 otherwise.
ExpectedStartCode(o) ==
    IF ~o.handle THEN -1
    ELSE IF o.wasRunning THEN -2
    ELSE IF o.init = "fail" THEN -3
    ELSE IF o.fin = "fail" THEN -4
    ELSE IF o.start = "fail" THEN -5
    ELSE 0

C5_ReturnCodes ==
    \A t \in Threads :
        pc[t] = "idle" =>
            /\ op[t] \in StartOps =>
                  /\ ret[t] = ExpectedStartCode(obs[t])
                  /\ ret[t] = 0 <=> /\ obs[t].handle
                                    /\ ~obs[t].wasRunning
                                    /\ obs[t].init = "ok"
                                    /\ obs[t].fin = "ok"
                                    /\ obs[t].start = "ok"
            /\ op[t] = "Stop" => ret[t] = IF obs[t].handle THEN 0 ELSE -1

\* a Start that passed every check but the last returned -5
C5_Witness ==
    \E t \in Threads :
        /\ Returned(t, StartOps)
        /\ obs[t].init = "ok"
        /\ obs[t].fin = "ok"
        /\ obs[t].start = "fail"
        /\ ret[t] = -5

\* ---------------------------------------------------------------------- C6
\* C6 (as stated): every Start call on a valid handle that returns a non-zero
\* code, AlreadyRunning included, has emitted exactly one Error event with a
\* non-null message by the time it returns.
C6_EveryStartErrorEmitsOneEvent ==
    \A t \in Threads :
        (Returned(t, StartOps) /\ ret[t] # 0 /\ eventCallback)
            => /\ NumEvents(obs[t].events, EvError) = 1
               /\ \A i \in 1..Len(obs[t].events) :
                      obs[t].events[i].msg # "nullptr"

\* C6 (amended): a Start call that fails at negotiation, finalize or client
\* start returns -3, -4 or -5 and, when an event callback was given, has
\* emitted exactly one event by then, an Error event with a non-null message;
\* a Start call rejected as AlreadyRunning returns -2 and emits no event.
C6_StartErrorsAfterTheRunningCheckEmitOneEvent ==
    \A t \in Threads :
        Returned(t, StartOps) =>
            /\ ("fail" \in {obs[t].init, obs[t].fin, obs[t].start})
                  => /\ ret[t] \in {-3, -4, -5}
                     /\ Len(obs[t].events) = IF eventCallback THEN 1 ELSE 0
                     /\ \A i \in 1..Len(obs[t].events) :
                            /\ obs[t].events[i].type = EvError
                            /\ obs[t].events[i].msg # "nullptr"
            /\ ret[t] = -2 => obs[t].events = <<>>
            /\ ret[t] \in {-3, -4, -5}
                  => "fail" \in {obs[t].init, obs[t].fin, obs[t].start}

\* a Start failed at client start and its one Error event was delivered
C6_Witness ==
    \E t \in Threads :
        /\ Returned(t, StartOps)
        /\ ret[t] = -5
        /\ eventCallback
        /\ obs[t].events = <<Event(EvError, "Failed to start audio client")>>
        /\ events[Len(events)] = Event(EvError, "Failed to start audio client")

\* ---------------------------------------------------------------------- C8
\* the samples of the real chunks of a log of data callback invocations
RECURSIVE RealSamples(_)
RealSamples(d) ==
    IF d = <<>> THEN <<>>
    ELSE (IF d[1].synthetic THEN <<>> ELSE d[1].samples) \o RealSamples(Tail(d))

\* C8: within a session, the real (non-synthetic) chunks delivered to the
\* data callback, concatenated in delivery order and followed by the chunk
\* buffer, are exactly the samples processed in that session, in the order
\* their batches were pulled.
C8_DeliveredThenBufferIsProcessed ==
    session.started => RealSamples(delivered) \o chunkBuffer = processed

\* ---------------------------------------------------------------------- C9
\* the metadata callback invocations of the call that started the session
SessionMetadata ==
    {i \in 1..Len(metadata) : metadata[i].call = session.id}

\* C9: every data callback invocation of a session, real or synthetic,
\* carries samplesPerChunk x outputChannelCount samples and 4 bytes for each,
\* where samplesPerChunk is the truncation of chunkDurationMs / 1000 x the
\* reported sample rate and outputChannelCount is the channel count that
\* session's metadata callback reported (1 if mono, else the native channel
\* count); 200 ms at 48000 Hz mono gives 9600 samples, 38400 bytes.
C9_EveryChunkHasTheSessionSize ==
    [][/\ SamplesPerChunk(QInt(200), 48000) * 1 = 9600
       /\ 9600 * BytesPerSample = 38400
       /\ Len(delivered') > Len(delivered) =>
            \A i \in SessionMetadata :
                LET c  == delivered'[Len(delivered')]
                    md == metadata[i]
                IN  /\ md.channelsPerFrame =
                           IF isMono THEN 1 ELSE mixFormat.nChannels
                    /\ samplesPerChunk =
                           SamplesPerChunk(chunkDurationMs, md.sampleRate)
                    /\ Len(c.samples) = samplesPerChunk * md.channelsPerFrame
                    /\ c.bytes = samplesPerChunk * md.channelsPerFrame * 4]_vars

\* a two-channel session has delivered a synthetic chunk and then a real one
C9_Witness ==
    /\ SessionMetadata # {}
    /\ \A i \in SessionMetadata : metadata[i].channelsPerFrame = 2
    /\ \E i, j \in 1..Len(delivered) :
          /\ i < j
          /\ delivered[i].synthetic
          /\ ~delivered[j].synthetic
          /\ Len(delivered[i].samples) = 4
          /\ delivered[j].bytes = 16

\* --------------------------------------------------------------------- C10
\* C10: when ProcessAudioData has returned from processing a batch, the chunk
\* buffer holds strictly fewer than samplesNeeded samples, whatever the
\* configuration of the session (a null data callback included).
C10_BufferBelowThresholdAfterProcessing ==
    (worker.pc = "release" /\ worker.receivedAudio /\ mixFormat # NullFormat)
        => Len(chunkBuffer) < worker.samplesNeeded

\* ---------------------------------------------------------------------- C3
\* C3: once a call to Stop has returned, whichever control thread made it, no
\* data callback is invoked and the capture thread emits no Error event until
\* a later Start puts the session in the Running state again.
C3_NoCallbackAfterStopReturns ==
    [][session.stopReturned
          => /\ Len(delivered') <= Len(delivered)
             /\ worker'.errors <= worker.errors]_vars

\* ---------------------------------------------------------------------- C7
\* C7: once a call on the capture client has failed in the capture loop, the
\* capture thread is on its way out of the loop or has exited, the failure
\* has been reported by exactly one Error event, and when the thread has
\* exited IsRunning is false, so that a Start is accepted.
C7_ReadFailureEndsTheSession ==
    worker.failures > 0
        => /\ worker.pc \in {"exit", "done"}
           /\ eventCallback => worker.errors = 1
           /\ worker.pc = "done" => ~IsRunning

\* --------------------------------------------------------------------- C11
\* the channel count of the output stream: 1 if mono, else the native count
OutputChannelCount == IF isMono THEN 1 ELSE mixFormat.nChannels

\* the capture thread runs the watchdog part of a loop iteration in this step
WatchdogStep == worker.pc = "watch" /\ worker'.pc = "loop"

\* a synthetic chunk is handed to the data callback in this step
SyntheticEmitted ==
    /\ Len(delivered') = Len(delivered) + 1
    /\ delivered'[Len(delivered')].synthetic

\* C11: in a session with emitSilence set (a data callback given, a chunk
\* size above zero), a loop iteration that yielded no real frames while at
\* least chunkDurationMs have passed since lastDataTime emits exactly one
\* all-zero chunk of samplesPerChunk x outputChannelCount samples and sets
\* lastDataTime to now; and a synthetic chunk is never emitted less than
\* chunkDurationMs after an earlier synthetic chunk.
C11_OneSilentChunkPerInterval ==
    [][(WatchdogStep /\ dataCallback
            /\ samplesPerChunk * OutputChannelCount > 0)
          => /\ (/\ emitSilence
                 /\ ~worker.receivedAudio
                 /\ QLe(chunkDurationMs, QInt(now - lastDataTime)))
                   => /\ delivered' = Append(delivered,
                            Chunk([i \in 1..(samplesPerChunk * OutputChannelCount)
                                      |-> QInt(0)], TRUE))
                      /\ lastDataTime' = now
             /\ SyntheticEmitted
                   => \A i \in 1..Len(delivered) :
                          delivered[i].synthetic
                              => QLe(chunkDurationMs, QInt(now - delivered[i].at))
      ]_vars

\* --------------------------------------------------------------------- C12
\* a real (non-synthetic) chunk is handed to the data callback in this step
RealEmitted ==
    /\ Len(delivered') = Len(delivered) + 1
    /\ ~delivered'[Len(delivered')].synthetic

\* C12: a synthetic chunk is emitted only by the watchdog of a session whose
\* emitSilence flag is set, and only in a loop iteration that processed no
\* real frames; every other data callback invocation carries the oldest
\* samples of the chunk buffer, which holds processed real samples only.
C12_SilenceOnlyWhenRequested ==
    [][/\ SyntheticEmitted
            => (WatchdogStep /\ emitSilence /\ ~worker.receivedAudio)
       /\ RealEmitted
            => LET c == delivered'[Len(delivered')]
               IN  /\ c.samples = SubSeq(chunkBuffer, 1, Len(c.samples))
                   /\ RealSamples(delivered') \o chunkBuffer' =
                          session.buffer0 \o processed
       /\ (~emitSilence /\ Len(delivered') > Len(delivered)) => RealEmitted
      ]_vars

\* in a session without emitSilence a real chunk was delivered, then a loop
\* iteration without audio ended a whole chunk duration later, and no
\* synthetic chunk was emitted
C12_Witness ==
    /\ ~emitSilence
    /\ IsRunning
    /\ worker.pc = "loop"
    /\ ~worker.receivedAudio
    /\ now - lastDataTime >= worker.chunkDuration
    /\ delivered # <<>>
    /\ \A i \in 1..Len(delivered) : ~delivered[i].synthetic

\* --------------------------------------------------------------------- C13
\* the metadata callback invocations made by API call `id`
MetadataOf(id) == {i \in 1..Len(metadata) : metadata[i].call = id}

\* C13: a Start call whose finalize step has succeeded has invoked the
\* metadata callback (when one was given) exactly once, with 32 bits per
\* channel, float samples, encoding pcm_f32le and the channel count 1 if
\* mono, else the native count; no call invokes it twice; and when a data
\* callback of a session has been invoked, that session's metadata callback
\* had been invoked before.
C13_MetadataOnceBeforeData ==
    /\ \A t \in Threads :
          (op[t] \in StartOps /\ obs[t].fin = "ok" /\ metadataCallback)
              => /\ Cardinality(MetadataOf(obs[t].id)) = 1
                 /\ \A i \in MetadataOf(obs[t].id) :
                       /\ metadata[i].bitsPerChannel = 32
                       /\ metadata[i].isFloat
                       /\ metadata[i].encoding = "pcm_f32le"
                       /\ metadata[i].channelsPerFrame = OutputChannelCount
    /\ \A i, j \in 1..Len(metadata) :
          metadata[i].call = metadata[j].call => i = j
    /\ (delivered # <<>> /\ metadataCallback)
          => Cardinality(MetadataOf(session.id)) = 1

\* a two-channel session that is not mono reported 2 channels, a mono one
\* before it reported 1, and a chunk of the later session was delivered
C13_Witness ==
    /\ Len(metadata) = 2
    /\ metadata[1].channelsPerFrame = 1
    /\ metadata[2].channelsPerFrame = 2
    /\ metadata[2].call = session.id
    /\ delivered # <<>>

\* --------------------------------------------------------------------- C14
\* the capture thread of thread t's Start call is created in this step
SpawnBy(t) == pc[t] = "start_thread" /\ worker'.pc = "entry"

\* C14: a Start call that has returned 0 emitted exactly one event, a Started
\* event (eventType 0, null message), and created a capture thread; the event
\* was emitted before the capture thread was created, and data callbacks are
\* invoked by a capture thread only; a Start call that has returned a
\* non-zero code emitted no Started event and created no capture thread.
C14_StartedOnceBeforeData ==
    [][\A t \in Threads :
          /\ (SpawnBy(t) /\ eventCallback)
                => obs[t].events = <<Event(0, "nullptr")>>
          /\ Len(delivered') > Len(delivered)
                => /\ worker.pc \notin {"none", "entry", "done"}
                   /\ session.started
          /\ (pc'[t] = "idle" /\ op'[t] \in StartOps /\ obs'[t].handle)
                => IF ret'[t] = 0
                   THEN /\ obs'[t].events =
                               IF eventCallback THEN <<Event(0, "nullptr")>>
                               ELSE <<>>
                        /\ obs'[t].spawned
                   ELSE /\ \A i \in 1..Len(obs'[t].events) :
                               obs'[t].events[i].type # 0
                        /\ ~obs'[t].spawned
                        /\ ~SpawnBy(t)]_vars

\* a Start returned 0, its Started event is the only event so far, and a
\* chunk of the session has been delivered
C14_Witness ==
    \E t \in Threads :
        /\ Returned(t, StartOps)
        /\ ret[t] = 0
        /\ obs[t].spawned
        /\ events = <<Event(0, "nullptr")>>
        /\ session.id = obs[t].id
        /\ delivered # <<>>

\* --------------------------------------------------------------------- C15
\* C15: when audio_destroy has deleted the handle, the capture thread does
\* not exist any more, the call emitted at most one Stopped event (none if
\* the session was not running), and every native object acquired by any
\* Start over the handle's life (audio client, capture client, mix format)
\* has been released.
C15_DestroyReleasesEverything ==
    \A t \in Threads :
        pc[t] = "destroyed"
            => /\ worker.pc = "none"
               /\ ~captureThread
               /\ NumEvents(obs[t].events, EvStopped) <= 1
               /\ ~obs[t].wasRunning => obs[t].events = <<>>
               /\ live = {}

\* --------------------------------------------------------------------- C16
\* the audio clients (native capture endpoints) acquired and not released
LiveEndpoints == {o \in live : o[1] = "ac"}

\* C16: when a Stop has returned from a Running session no native capture
\* endpoint is live; at every moment at most one endpoint is live; and none
\* is live while the session is Idle (no call in progress, not running).
C16_StopReleasesTheEndpoint ==
    /\ \A t \in Threads :
          (Returned(t, {"Stop"}) /\ obs[t].wasRunning /\ ~IsRunning)
              => LiveEndpoints = {}
    /\ Cardinality(LiveEndpoints) <= 1
    /\ ((\A t \in Threads : pc[t] = "idle") /\ ~IsRunning)
          => LiveEndpoints = {}

\* --------------------------------------------------------------------- C17
\* another thread is inside Start and has not yet set running_
Initializing(t) ==
    \E u \in Threads \ {t} :
        /\ op[u] \in StartOps
        /\ pc[u] \in {"start_cfg", "start_init", "start_fin", "start_client",
                      "start_run"}

\* another thread is inside Stop, has cleared running_ and has not yet
\* joined the capture thread
Stopping(t) ==
    \E u \in Threads \ {t} : op[u] = "Stop" /\ pc[u] = "stop_join"

\* C17: a Start call made by one thread while another thread's Start is in
\* progress and has not yet set running, or while another thread's Stop has
\* cleared running and not yet joined the capture thread, returns -2 in
\* that step and changes nothing of the session.
C17_StartOnlyFromIdle ==
    [][\A t \in Threads :
          (CallBy(t, StartOps) /\ obs'[t].handle
             /\ (Initializing(t) \/ Stopping(t)))
              => /\ ret'[t] = -2
                 /\ pc'[t] = "idle"
                 /\ UNCHANGED sessionVars]_vars

\* --------------------------------------------------------------------- C18
\* thread t executes the assignment to captureThread_ in this step
AssignsThread(t) ==
    /\ pc[t] = "start_thread"
    /\ ~aborted
    /\ aborted' \/ pc'[t] = "idle"

\* C18: under every interleaving of calls from two control threads, a Start
\* assigns a new capture thread only when no capture thread is joinable, so
\* that at most one capture thread exists and none is overwritten, and the
\* process is never terminated under a Stop that is waiting in join.
C18_OneWorkerUnderConcurrency ==
    [][\A t \in Threads :
          AssignsThread(t) => (~captureThread /\ ~aborted')]_vars

\* --------------------------------------------------------------------- C19
\* the capture thread has been spawned and has not left CaptureThread
WorkerAlive == worker.pc \notin {"none", "done"}

\* the members the capture thread reads or writes in its loop
workerOwned == <<isMono, gain, emitSilence, chunkDurationMs, samplesPerChunk,
                 resampleRatio, mixFormat, chunkBuffer, lastDataTime>>

\* C19: while the capture thread is alive, a step of a control thread (a
\* step of Start, Stop or Destroy) writes none of the mono flag, gain,
\* emit-silence flag, chunk duration, samplesPerChunk, resample ratio, mix
\* format, chunk buffer and lastDataTime.
C19_WorkerOwnsThePipelineState ==
    [][(WorkerAlive /\ pc' # pc) => UNCHANGED workerOwned]_vars

\* --------------------------------------------------------------------- C20
\* thread t executes a step of Stop in this step
StopStep(t) ==
    /\ pc[t] \in {"stop_signal", "stop_join", "stop_client", "stop_event"}
    /\ pc'[t] # pc[t]

\* C20: no step of Stop invokes the data callback, and whenever a Start
\* spawns the capture thread the chunk buffer is empty, so that the first
\* chunk of the new session holds only samples captured in that session.
C20_PartialChunkIsDiscardedOnStop ==
    [][/\ \A t \in Threads : StopStep(t) => delivered' = delivered
       /\ (worker.pc # "entry" /\ worker'.pc = "entry")
             => chunkBuffer' = <<>>]_vars

\* --------------------------------------------------------------------- C21
\* the capture thread has just pushed the samples of a packet
PacketProcessed == worker.pc = "emit"

\* C21: the samples pushed for a packet are the packet's samples, downmixed
\* and resampled as configured, multiplied by the gain only in a session
\* started with StartMicrophone; in a session started with StartSystemAudio
\* they are never multiplied by a gain, whatever calls came before.
C21_GainOnlyOnTheMicrophonePath ==
    PacketProcessed =>
        LET pkt     == session.packet
            applied == IF session.kind = "StartMicrophone" THEN gain
                       ELSE QInt(1)
        IN  pkt.out = ProcessedSamples(pkt.data, pkt.numFrames,
                          mixFormat.nChannels, applied, isMono, resampleRatio)

\* --------------------------------------------------------------------- C22
\* the session asks for a rate other than the endpoint's
ResampleRequested ==
    targetSampleRate > 0 /\ targetSampleRate # mixFormat.nSamplesPerSec

\* the session asks for mono and the endpoint has more than one channel
DownmixRequested == isMono /\ mixFormat.nChannels > 1

FrameOf(data, f, channels) == SubSeq(data, (f - 1) * channels + 1, f * channels)

\* C23: in a session without gain or resampling, when mono is requested and
\* the endpoint has more than one channel the samples pushed for a packet are
\* one per frame, each the arithmetic mean of the frame's channel samples;
\* otherwise the packet's samples are pushed unchanged.
C23_DownmixIsThePerFrameMean ==
    (PacketProcessed /\ gain = QInt(1) /\ ~ResampleRequested)
        => LET pkt == session.packet
               ch  == mixFormat.nChannels
           IN  IF DownmixRequested
               THEN /\ Len(pkt.out) = pkt.numFrames
                    /\ \A f \in 1..pkt.numFrames :
                          pkt.out[f] = QDiv(SeqSum(FrameOf(pkt.data, f, ch)),
                                            QInt(ch))
               ELSE pkt.out = pkt.data

\* a stereo frame L = 1, R = -1 was downmixed to 0
C23_Witness ==
    /\ PacketProcessed
    /\ DownmixRequested
    /\ gain = QInt(1)
    /\ ~ResampleRequested
    /\ session.packet.data = <<QInt(1), QInt(-1)>>
    /\ session.packet.out = <<QInt(0)>>

\* a stereo frame L = R = 1 was downmixed to 1
C23_WitnessEqual ==
    /\ PacketProcessed
    /\ DownmixRequested
    /\ gain = QInt(1)
    /\ ~ResampleRequested
    /\ session.packet.data = <<QInt(1), QInt(1)>>
    /\ session.packet.out = <<QInt(1)>>

\* --------------------------------------------------------------------- C24
\* x lies between a and b, inclusive, whichever of the two is larger
Between(x, a, b) == (QLe(a, x) /\ QLe(x, b)) \/ (QLe(b, x) /\ QLe(x, a))

\* C24: when the resampler has run on n samples with ratio = target rate /
\* native rate, the number of samples it produced is within one of n x ratio,
\* and output i lies between input[floor(i / ratio)] and the input sample
\* after it (the last input sample has no successor and is copied).
C24_ResamplerLengthAndBounds ==
    (PacketProcessed /\ ResampleRequested)
        => LET in    == session.packet.resampleIn
               res   == session.packet.resampled
               n     == Len(in)
               ratio == Q(targetSampleRate, mixFormat.nSamplesPerSec)
               exact == QMul(QInt(n), ratio)
           IN  /\ QLe(QSub(exact, QInt(1)), QInt(Len(res)))
               /\ QLe(QInt(Len(res)), QAdd(exact, QInt(1)))
               /\ \A i \in 0..(Len(res) - 1) :
                     LET k == QTrunc(QDiv(QInt(i), ratio))
                     IN  /\ k < n
                         /\ Between(res[i + 1], in[k + 1],
                                    in[IF k + 1 < n THEN k + 2 ELSE k + 1])

\* two samples 1, 2 were resampled by 3/2 into 1, 5/3, 2
C24_Witness ==
    /\ PacketProcessed
    /\ ResampleRequested
    /\ session.packet.resampleIn = <<QInt(1), QInt(2)>>
    /\ session.packet.resampled = <<QInt(1), Q(5, 3), QInt(2)>>

\* --------------------------------------------------------------------- C25
\* thread t is inside a StartSystemAudio call whose source has been resolved
SourceResolved(t) ==
    /\ op[t] = "StartSystemAudio"
    /\ pc[t] \in {"start_fin", "start_client", "start_run", "start_event",
                  "start_thread"}

\* C25: the source StartSystemAudio resolves is process-include loopback of
\* include[0] when the include list is non-empty, otherwise process-exclude
\* loopback of exclude[0] when the exclude list is non-empty, otherwise
\* system-wide loopback; so later ids, and the exclude list beside a
\* non-empty include list, never matter. The running session has that source.
C25_SourceFromFirstIds ==
    \A t \in Threads :
        SourceResolved(t)
            => /\ obs[t].source =
                     IF args[t].include # <<>>
                     THEN <<"include", Head(args[t].include)>>
                     ELSE IF args[t].exclude # <<>>
                     THEN <<"exclude", Head(args[t].exclude)>>
                     ELSE <<"system", 0>>
               /\ pc[t] \in {"start_event", "start_thread"}
                     => session.source = obs[t].source

\* a call with two ids in both lists resolved to include loopback of the
\* first include id
C25_Witness ==
    \E t \in Threads :
        /\ SourceResolved(t)
        /\ args[t].include = <<7, 8>>
        /\ args[t].exclude = <<9, 8>>
        /\ obs[t].source = <<"include", 7>>
        /\ pc[t] = "start_thread"

\* --------------------------------------------------------------------- C26
\* C26: a Start call whose process-loopback activation had not completed
\* when the 5 second wait expired fails: it is back in the host with -3, has
\* emitted one Error event and no Started event, has started no capture
\* thread and left the session not running, and has issued the activation
\* request exactly once. A completion arriving later changes none of this.
C26_ActivationTimeoutFailsTheStart ==
    \A t \in Threads :
        (op[t] \in StartOps /\ obs[t].timedOut)
            => /\ pc[t] = "idle"
               /\ ret[t] = -3
               /\ obs[t].requests = 1
               /\ obs[t].events =
                     Emitted(<<>>, EvError, "Failed to initialize audio capture")
               /\ ~obs[t].spawned
               /\ ~IsRunning

\* --------------------------------------------------------------------- C27
\* the session is Running: the flag is set and a capture thread is capturing
SessionRunning == running /\ WorkerAlive

\* C27: a call of audio_is_running returns in one step without changing
\* anything of the session; on a null handle it returns false, and on a
\* valid handle it returns true exactly when the session is Running with a
\* capture thread capturing.
C27_IsRunningReadsTheRunningState ==
    [][\A t \in Threads :
          CallBy(t, {"IsRunning"})
              => /\ pc'[t] = "idle"
                 /\ UNCHANGED sessionVars
                 /\ ret'[t] = IF obs'[t].handle THEN BoolCode(SessionRunning)
                              ELSE BoolCode(FALSE)]_vars

\* --------------------------------------------------------------------- C28
\* a non-negative rational rounded to the nearest integer, halves upwards
QRound(x) == (2 * x[1] + x[2]) \div (2 * x[2])

\* thread t is inside a Start call that has finalized its initialization
Finalized(t) ==
    /\ op[t] \in StartOps
    /\ pc[t] \in {"start_client", "start_run", "start_event", "start_thread"}

\* C28: after a Start has finalized, samplesPerChunk is (chunkDurationMs /
\* 1000) x outputSampleRate rounded to the nearest integer (221 for 5 ms at
\* 44100 Hz), and the samplesNeeded of a processed packet is samplesPerChunk
\* x the output channel count.
C28_SamplesPerChunkIsRounded ==
    /\ \A t \in Threads :
          Finalized(t)
              => samplesPerChunk =
                    QRound(QMul(QDiv(chunkDurationMs, QInt(1000)),
                                QInt(OutputSampleRate(targetSampleRate,
                                         mixFormat.nSamplesPerSec))))
    /\ PacketProcessed
          => worker.samplesNeeded = samplesPerChunk * OutputChannelCount

\* C28 (amended): after a Start has finalized, samplesPerChunk is
\* (chunkDurationMs / 1000) x outputSampleRate truncated toward zero (220 for
\* 5 ms at 44100 Hz), and the samplesNeeded of a processed packet is
\* samplesPerChunk x the output channel count.
C28_SamplesPerChunkIsTruncated ==
    /\ \A t \in Threads :
          Finalized(t)
              => LET x == QMul(QDiv(chunkDurationMs, QInt(1000)),
                               QInt(OutputSampleRate(targetSampleRate,
                                        mixFormat.nSamplesPerSec)))
                 IN  /\ QLe(QInt(samplesPerChunk), x)
                     /\ ~QLe(QInt(samplesPerChunk + 1), x)
    /\ PacketProcessed
          => worker.samplesNeeded = samplesPerChunk * OutputChannelCount

\* a Start with 5 ms chunks on a 44100 Hz endpoint has finalized with 220
\* samples per chunk
C28_Witness ==
    \E t \in Threads :
        /\ Finalized(t)
        /\ chunkDurationMs = QInt(5)
        /\ targetSampleRate = 0
        /\ mixFormat.nSamplesPerSec = 44100
        /\ samplesPerChunk = 220

\* --------------------------------------------------------------------- C30
\* the drain loop of ProcessAudioData invokes the data callback in this step
DrainStep == worker.pc = "emit" /\ Len(delivered') > Len(delivered)

\* C30: every run of the body of ProcessAudioData's drain loop delivers a
\* chunk of at least one sample and leaves the chunk buffer strictly
\* shorter, so the loop ends after finitely many data callbacks whatever the
\* configuration, a samplesPerChunk of 0 included.
C30_DrainLoopTerminates ==
    [][DrainStep
          => /\ Len(delivered'[Len(delivered')].samples) > 0
             /\ Len(chunkBuffer') < Len(chunkBuffer)]_vars

\* --------------------------------------------------------------------- C29
\* C29: a Stop that has set the stop signal and waits in join always
\* returns: the capture thread reaches the end of its iteration, observes
\* the signal, exits, and the call is back in the host.
C29_StopAlwaysTerminates ==
    \A t \in ChunkProfile.threads :
        (pc[t] = "stop_join") ~> (pc[t] = "idle")

\* ------------------------------------------------------------------- C31
\* the capture thread takes a buffer from the capture client
PullStep == worker.pc = "getbuf" /\ batches' = batches + 1

\* buffers taken and not yet handed back: one while the worker is between
\* GetBuffer and ReleaseBuffer, none otherwise
ReleaseBalance ==
    batches - released = IF worker.pc \in {"emit", "release"} THEN 1 ELSE 0

\* C31 as stated: every batch the capture thread pulls, flagged silent or
\* not, is appended to the chunk buffer after processing and makes the
\* iteration count as one that received audio, and every pulled buffer is
\* released exactly once before the next is pulled.
C31_EveryPulledBatchIsProcessed ==
    [][ /\ PullStep =>
              /\ worker'.pc = "emit"
              /\ processed' = processed \o session'.packet.out
              /\ chunkBuffer' = chunkBuffer \o session'.packet.out
        /\ (worker.pc # "release" /\ worker'.pc = "release") =>
              worker'.receivedAudio
        /\ ReleaseBalance' ]_vars

\* C31 (amended): every pulled batch that is not flagged silent is appended
\* to the chunk buffer after processing and makes the iteration count as one
\* that received audio; a batch flagged silent is neither processed nor
\* counted; every pulled buffer is released exactly once before the next is
\* pulled.
C31_UnflaggedBatchesAreProcessed ==
    [][ /\ PullStep =>
              IF worker'.flags
              THEN /\ worker'.pc = "release"
                   /\ processed' = processed
                   /\ chunkBuffer' = chunkBuffer
                   /\ worker'.receivedAudio = worker.receivedAudio
              ELSE /\ worker'.pc = "emit"
                   /\ processed' = processed \o session'.packet.out
                   /\ chunkBuffer' = chunkBuffer \o session'.packet.out
        /\ (worker.pc = "emit" /\ worker'.pc = "release") =>
              worker'.receivedAudio
        /\ ReleaseBalance' ]_vars

\* an iteration in which a processed batch and then a batch flagged silent
\* were pulled and both released
C31_Witness ==
    /\ worker.pc = "inner"
    /\ worker.flags
    /\ worker.receivedAudio
    /\ processed # <<>>
    /\ batches = 2
    /\ released = 2

\* ------------------------------------------------------------------- C32
\* the capture thread is inside CaptureThread, after its entry code and
\* before its exit code
WorkerInLoop ==
    worker.pc \in {"loop", "wait", "poll", "inner", "getbuf", "emit",
                   "release", "watch", "exit"}

\* C32: whichever way the capture thread leaves its loop (stop event, running
\* flag cleared, failed read), when it has returned the COM initialisation it
\* made at entry has been undone exactly once and its task registration
\* reverted; until then both are held, and a COM initialisation the thread
\* did not make is never undone by it.
C32_WorkerContextIsPaired ==
    /\ worker.comRefs \in {0, 1}
    /\ worker.mmTasks \in {0, 1}
    /\ WorkerInLoop =>
          /\ worker.comRefs = (IF worker.comInitializedByUs THEN 1 ELSE 0)
          /\ worker.mmTasks = (IF worker.taskHandle THEN 1 ELSE 0)
    /\ worker.pc = "done" =>
          /\ worker.comRefs = 0
          /\ worker.mmTasks = 0

\* the capture thread has returned after a failed GetNextPacketSize, having
\* initialised COM and registered its task at entry
C32_Witness ==
    /\ worker.pc = "done"
    /\ worker.errors = 1
    /\ worker.comInitializedByUs
    /\ worker.taskHandle

\* ------------------------------------------------------------------- C33
\* C33: with one control thread calling Start, Stop and audio_destroy, the
\* Started and Stopped events the event callback receives alternate,
\* beginning with Started: at every point
\* count(Stopped) <= count(Started) <= count(Stopped) + 1, also after the
\* capture thread has ended by itself on a failed read.
C33_StartedAndStoppedAlternate ==
    /\ NumEvents(events, EvStopped) <= NumEvents(events, EvStarted)
    /\ NumEvents(events, EvStarted) <= NumEvents(events, EvStopped) + 1
    /\ \A i \in 1..Len(events) :
          events[i].type = EvStopped =>
             \E j \in 1..(i - 1) :
                /\ events[j].type = EvStarted
                /\ \A k \in (j + 1)..(i - 1) : events[k].type = EvError

\* the capture thread ended by itself on a failed read, Stop then delivered
\* Stopped, and a second Start has delivered Started
C33_Witness ==
    /\ NumEvents(events, EvStarted) = 2
    /\ NumEvents(events, EvStopped) = 1
    /\ \E i \in 1..Len(events) :
          /\ events[i] = Event(EvError, "Failed to get packet size")
          /\ \E j \in (i + 1)..Len(events) : events[j].type = EvStopped

\* ------------------------------------------------------------------- C34
\* an interleaved buffer with every sample of the channels other than c
\* (0-based) set to zero
ChannelOnly(data, channels, c) ==
    [i \in 1..Len(data) |-> IF (i - 1) % channels = c THEN data[i]
                            ELSE QInt(0)]

\* C34: when mono is not requested, the endpoint has C > 1 channels and
\* resampling is active, the samples pushed for a packet are a whole number
\* of frames of C samples, and the sample at index i (channel i mod C) is
\* computed from the input samples of that channel only: it is what the
\* resampler yields at i when the samples of every other channel are zero.
C34_ResamplingKeepsChannelsApart ==
    (PacketProcessed /\ ResampleRequested /\ ~isMono
                     /\ mixFormat.nChannels > 1)
        => LET C   == mixFormat.nChannels
               in  == session.packet.resampleIn
               out == session.packet.out
           IN  /\ Len(out) % C = 0
               /\ \A i \in 0..(Len(out) - 1) :
                     out[i + 1] =
                        ResampleAudio(ChannelOnly(in, C, i % C),
                                      resampleRatio)[i + 1]

\* ------------------------------------------------------------------- C35
\* position i / ratio in the resampler's input, and its integer part
SrcIndex(i, ratio) == QDiv(QInt(i), ratio)
SrcIndexInt(i, ratio) == QTrunc(SrcIndex(i, ratio))

\* C35: when ResampleAudio has run on n >= 1 samples, every output index
\* i < floor(n x ratio) has its source index floor(i / ratio) below n, so no
\* output is the zero fill: each is the interpolation of the two input
\* samples at floor(i / ratio) and the next index when both are in range,
\* and the last input sample otherwise.
C35_ZeroFillIsNeverTaken ==
    (PacketProcessed /\ ResampleRequested)
        => LET in  == session.packet.resampleIn
               res == session.packet.resampled
               n   == Len(in)
           IN  /\ n >= 1
               /\ Len(res) = QTrunc(QMul(QInt(n), resampleRatio))
               /\ \A i \in 0..(Len(res) - 1) :
                     LET k    == SrcIndexInt(i, resampleRatio)
                         frac == QSub(SrcIndex(i, resampleRatio), QInt(k))
                     IN  /\ k < n
                         /\ res[i + 1] =
                              IF k + 1 < n
                              THEN QAdd(QMul(in[k + 1], QSub(QInt(1), frac)),
                                        QMul(in[k + 2], frac))
                              ELSE in[n]

\* four samples were resampled by 3/2 into six: one output lies strictly
\* between two input samples and the last output is the last input sample
C35_Witness ==
    /\ PacketProcessed
    /\ ResampleRequested
    /\ Len(session.packet.resampleIn) = 4
    /\ Len(session.packet.resampled) = 6
    /\ SrcIndexInt(5, resampleRatio) = 3
    /\ session.packet.resampled[6] = session.packet.resampleIn[4]
    /\ SrcIndex(4, resampleRatio) # QInt(SrcIndexInt(4, resampleRatio))

============================================================================
